---- MODULE Spec2Model ----
(***************************************************************************)
(* A model of Tenge (src/index.js): a collection handle over a document    *)
(* store, with query shortcuts, before/after hooks and the update          *)
(* operations updateOne and updateAll.                                     *)
(*                                                                         *)
(* The store is the one collection the handle is bound to.  Its documents  *)
(* are kept in natural (insertion) order.  A document carries the store    *)
(* primary key `_id`, the application identifier `id`, the fields `age`    *)
(* and `hobby` of the test fixtures and the field `modifiedAfter` that the *)
(* test hooks set on the documents they are handed.                        *)
(*                                                                         *)
(* Conventions of the model:                                               *)
(*  - a sort with equal keys keeps natural order (the store's in-memory    *)
(*    sort of a collection scan);                                          *)
(*  - the actions named after the update, insert, remove or find calls     *)
(*    with a capital take the store query that `_makeQuery` has made of    *)
(*    the caller's query; find, findOne, count, size, remove, updateOne    *)
(*    and updateAll take the caller's query, `$$` marker included, and     *)
(*    normalise it first;                                                  *)
(*  - updateOne is called on a handle whose collection has been accessed   *)
(*    before, as the tests' setup does, so `_collection` passes it the     *)
(*    memoized collection; insert, remove, the finds, updateAll and a      *)
(*    direct `_collection` are called on a handle in any state;            *)
(*  - the operations run against a connected database, but for             *)
(*    `_collection`, `_db` and the constructor, which are also called      *)
(*    before `Tenge.connect`;                                              *)
(*  - the unique index on `id` is the store's uniqueness constraint on the *)
(*    application identifier: it binds the documents that carry an `id`;   *)
(*  - callers pass no projection, skip or limit to the update operations;  *)
(*  - hook handlers touch only the payload they are given, so a chain run  *)
(*    is one step of the operation that runs it.                           *)
(***************************************************************************)
EXTENDS Integers, Sequences, FiniteSets, TLC

VARIABLES
    col,      \* the collection's documents, in natural order
    oids,     \* how many store primary keys the store has generated
    _hooks,   \* this._hooks: phase -> action -> list of handlers
    op,       \* the operation under observation: its parameters, its
              \* position, its local variables and what its callback got
    _col,     \* this._col: the memoized collection of the handle
    made,     \* how many application identifiers makeID has generated
    inits,    \* calls of _initCollection whose ensureIndex is in flight
    _db,      \* what Tenge._db() returns: the connected database, if any
    _params,  \* this._params: what the constructor was given
    other     \* a second remove in flight on the same handle

\* the handle's state besides its hooks, and the connection
handle == <<_col, made, inits, _db, _params, other>>

vars == <<col, oids, _hooks, op, _col, made, inits, _db, _params, other>>

----------------------------------------------------------------------------
(* Bounds of the model *)

\* store primary keys the store may generate in one behaviour
MaxId == 3
\* steps of other clients while one updateAll is in flight
MaxWrites == 1
\* longest handler list handed to _runHooks directly
MaxChain == 4
\* handlers registered for one action of the handle
MaxHooks == 1
\* documents handed to one insert
MaxBatch == 2
\* handlers the caller registers on one handle with before and after
MaxRegistered == 2
\* calls of _initCollection in flight at one time
MaxInits == 2
\* keys of the marker of one query
MaxMarker == 2

----------------------------------------------------------------------------
(* Values *)

\* a field the document does not carry (undefined)
Absent == 0
\* ages of the fixtures and of the queries of the tests
Teen == 17
Adult == 20
Ancient == 150
\* 'chess', the hobby the updates set
Chess == 1
\* 'fake_id', the application identifier a caller sets itself; the
\* identifiers makeID generates are 1, 2, ...
Fake == 100

NoErr == "ok"

Doc(k, a, h) == [_id |-> k, id |-> Absent, age |-> a, hobby |-> h, modifiedAfter |-> FALSE]

Range(s) == {s[i] : i \in 1..Len(s)}

\* _.pluck(docs, '_id')
Pluck(docs, fld) == [i \in 1..Len(docs) |-> docs[i][fld]]

----------------------------------------------------------------------------
(* The store: the operations of a collection that index.js calls *)

\* A query on one field: {fld: val}, {fld: {$lt: val}} or {fld: {$in: val}}.
\* A document that does not carry the field matches none of them.  The
\* query {} ("all") matches every document.
Matches(d, q) ==
    CASE q.op = "eq" -> d[q.fld] = q.val
      [] q.op = "lt" -> d[q.fld] # Absent /\ d[q.fld] < q.val
      [] q.op = "in" -> d[q.fld] \in q.val
      [] q.op = "all" -> TRUE

Filter(docs, q) == SelectSeq(docs, LAMBDA d : Matches(d, q))

\* cursor.sort(spec): spec.dir is 1 (ascending) or -1 (descending); a
\* document without the field sorts lowest; equal keys keep their order.
Precedes(a, b, sort) ==
    IF sort.dir = 1 THEN a[sort.fld] < b[sort.fld] ELSE a[sort.fld] > b[sort.fld]

InsertSorted(d, t, sort) ==
    LET p == Cardinality({i \in 1..Len(t) : ~Precedes(d, t[i], sort)})
    IN  SubSeq(t, 1, p) \o <<d>> \o SubSeq(t, p + 1, Len(t))

RECURSIVE SortBy(_, _)
SortBy(docs, sort) ==
    IF docs = <<>> THEN <<>>
    ELSE InsertSorted(docs[Len(docs)], SortBy(SubSeq(docs, 1, Len(docs) - 1), sort), sort)

\* no params.sort: the cursor is left in natural order
NoSort == [fld |-> "$natural", dir |-> 1]

\* the projections the model uses: {} (every field) and {_id: true}
AllFields == "all"
KeyOnly == "_id"

Project(d, fields) ==
    IF fields = KeyOnly THEN Doc(d._id, Absent, Absent) ELSE d

\* the documents a cursor yields on toArray(): filter, sort, skip, limit,
\* projection; a falsy limit is no limit
CursorToArray(docs, c) ==
    LET hit     == Filter(docs, c.query)
        sorted  == IF c.sort = NoSort THEN hit ELSE SortBy(hit, c.sort)
        skipped == IF c.skip >= Len(sorted) THEN <<>>
                   ELSE SubSeq(sorted, c.skip + 1, Len(sorted))
        limited == IF c.limit = 0 THEN skipped
                   ELSE SubSeq(skipped, 1, IF c.limit < Len(skipped) THEN c.limit ELSE Len(skipped))
    IN  [i \in 1..Len(limited) |-> Project(limited[i], c.fields)]

\* {$set: {fld: val}} applied to a document
ApplySet(d, update) == [d EXCEPT ![update.fld] = update.val]

\* an upsert that gives the document it creates an application identifier
UpsertDocWithId(k, q, update) ==
    ApplySet([Doc(k, Absent, Absent) EXCEPT !.id = k], update)

\* the document an upsert creates: the equality fields of the query, then
\* the update applied, under a fresh primary key
UpsertDoc(k, q, update) ==
    LET base == Doc(k, Absent, Absent)
        seed == IF q.op = "eq" THEN [base EXCEPT ![q.fld] = q.val] ELSE base
    IN  ApplySet(seed, update)

\* col.update(query, update, {upsert, multi: true}): the collection after
\* it and the store's report
ColUpdate(docs, k, q, update, upsert) ==
    LET hit == {i \in 1..Len(docs) : Matches(docs[i], q)}
    IN  IF hit # {}
        THEN [col |-> [i \in 1..Len(docs) |->
                         IF i \in hit THEN ApplySet(docs[i], update) ELSE docs[i]],
              n |-> Cardinality(hit), upserted |-> <<>>]
        ELSE IF upsert
        THEN [col |-> Append(docs, UpsertDoc(k, q, update)),
              n |-> 1, upserted |-> <<[index |-> 0, _id |-> k]>>]
        ELSE [col |-> docs, n |-> 0, upserted |-> <<>>]

\* col.findAndModify({query, sort, update, upsert, new: true}): one
\* atomic step of the store. doc is <<>> for null.
ColFindAndModify(docs, k, p) ==
    LET hit == CursorToArray(docs, [query |-> p.query, sort |-> p.sort, skip |-> 0,
                                    limit |-> 0, fields |-> AllFields])
    IN  IF hit # <<>>
        THEN LET new == ApplySet(hit[1], p.update)
             IN  [col |-> [i \in 1..Len(docs) |->
                             IF docs[i]._id = new._id THEN new ELSE docs[i]],
                  doc |-> <<Project(new, p.fields)>>,
                  lastErrorObject |-> [updatedExisting |-> TRUE, upserted |-> Absent]]
        ELSE IF p.upsert
        THEN LET new == UpsertDoc(k, p.query, p.update)
             IN  [col |-> Append(docs, new),
                  doc |-> <<Project(new, p.fields)>>,
                  lastErrorObject |-> [updatedExisting |-> FALSE, upserted |-> k]]
        ELSE [col |-> docs, doc |-> <<>>,
              lastErrorObject |-> [updatedExisting |-> FALSE, upserted |-> Absent]]

----------------------------------------------------------------------------
(* Hooks *)

\* A handler is function(params, next).  The handlers of the model, as in
\* the tests: "mark" sets modifiedAfter on every document of params.docs,
\* "push" pushes its value onto params.docs; then it calls next(), or
\* next(err) when it fails.
MarkHandler(name) == [name |-> name, act |-> "mark", val |-> Absent, fail |-> FALSE]
PushHandler(name, v, fail) == [name |-> name, act |-> "push", val |-> v, fail |-> fail]
\* "slice" leaves the first val documents in params.docs, as the handler of
\* the remove test does; a failing handler marks the documents and calls
\* next(err)
SliceHandler(name, n) == [name |-> name, act |-> "slice", val |-> n, fail |-> FALSE]
FailingHandler(name) == [name |-> name, act |-> "mark", val |-> Absent, fail |-> TRUE]
\* the before-insert handler _initCollection registers: "id" gives every
\* document of params.docs that has no id a generated one
DefaultHook == [name |-> "id", act |-> "id", val |-> Absent, fail |-> FALSE]

\* _assert(condition, message): the error it throws, NoErr for none
_assert(condition, message) == IF condition THEN NoErr ELSE "Tenge: " \o message

\* the constructor's this._hooks
NewHooks ==
    [before |-> [insert |-> <<>>, remove |-> <<>>],
     after  |-> [insert |-> <<>>, update |-> <<>>, upsert |-> <<>>, remove |-> <<>>]]

\* after(action, handler): the error thrown and the registry afterwards
after(hooks, action, handler) ==
    LET thrown == _assert(action \in DOMAIN hooks.after,
                          "After-hook for action not supported: " \o action)
    IN  [err   |-> thrown,
         hooks |-> IF thrown = NoErr THEN [hooks EXCEPT !.after[action] = Append(@, handler)]
                   ELSE hooks]

\* a before that looks the list up among the after-hooks
beforeAmongAfter(hooks, action, handler) == after(hooks, action, handler)

\* before(action, handler): the error thrown and the registry afterwards
before(hooks, action, handler) ==
    LET thrown == _assert(action \in DOMAIN hooks.before,
                          "Before-hook for action not supported: " \o action)
    IN  [err   |-> thrown,
         hooks |-> IF thrown = NoErr THEN [hooks EXCEPT !.before[action] = Append(@, handler)]
                   ELSE hooks]

\* doc.id = doc.id || self.makeID() on each document: makeID has
\* generated m identifiers so far and generates m + 1, m + 2, ...
Lacking(docs, i) == Cardinality({j \in 1..i : docs[j].id = Absent})
AssignIds(docs, m) ==
    [i \in 1..Len(docs) |->
        IF docs[i].id = Absent THEN [docs[i] EXCEPT !.id = m + Lacking(docs, i)] ELSE docs[i]]

\* the names of the handlers of a list
Names(list) == [i \in 1..Len(list) |-> list[i].name]

\* one handler invoked on the chain's params; st is the chain so far:
\* the error passed to next, params.docs, and the handlers invoked
HookCall(h, st) ==
    [err   |-> IF h.fail THEN h.name ELSE NoErr,
     docs  |-> CASE h.act = "mark" ->
                      [i \in 1..Len(st.docs) |-> [st.docs[i] EXCEPT !.modifiedAfter = TRUE]]
                 [] h.act = "push"  -> Append(st.docs, h.val)
                 [] h.act = "slice" ->
                      SubSeq(st.docs, 1, IF h.val < Len(st.docs) THEN h.val ELSE Len(st.docs))
                 [] h.act = "id"    -> AssignIds(st.docs, st.made),
     calls |-> Append(st.calls, h.name),
     made  |-> IF h.act = "id" THEN st.made + Lacking(st.docs, Len(st.docs)) ELSE st.made]

\* a chain that goes on after a handler has failed
RECURSIVE ChainOn(_, _)
ChainOn(hooks, st) ==
    IF hooks = <<>> THEN st
    ELSE LET nx == HookCall(Head(hooks), st)
         IN  ChainOn(Tail(hooks), [nx EXCEPT !.err = IF st.err # NoErr THEN st.err ELSE @])

\* the chain: each handler runs when the one before it has called next
\* without an error
RECURSIVE Chain(_, _)
Chain(hooks, st) ==
    IF hooks = <<>> \/ st.err # NoErr THEN st
    ELSE Chain(Tail(hooks), HookCall(Head(hooks), st))

\* _runHooks(hooks, docs, cb): what cb receives (err, params.docs), the
\* handlers that were invoked, in order, and the identifiers generated
_runHooks(hooks, docs) ==
    Chain(hooks, [err |-> NoErr, docs |-> docs, calls |-> <<>>, made |-> made])

----------------------------------------------------------------------------
(* Query objects and the query normaliser *)

\* The values of a query object: numbers, undefined, arrays, plain objects
\* (their entries in insertion order) and ObjectIds.  An application
\* identifier is a number here, and 0 is the falsy one ('').  Every value has
\* the same three fields: its type t, the number n of a number or an
\* ObjectId, and the elements or entries v of an array or an object.
Num(n) == [t |-> "number", n |-> n, v |-> <<>>]
Undefined == [t |-> "undefined", n |-> 0, v |-> <<>>]
Arr(a) == [t |-> "array", n |-> 0, v |-> a]
Obj(entries) == [t |-> "object", n |-> 0, v |-> entries]
Oid(n) == [t |-> "ObjectId", n |-> n, v |-> <<>>]
Entry(k, v) == [k |-> k, v |-> v]

\* key in object, object[key], object[key] = x, _.omit(object, key)
Has(o, k) == \E i \in 1..Len(o.v) : o.v[i].k = k
Get(o, k) == IF Has(o, k) THEN o.v[CHOOSE i \in 1..Len(o.v) : o.v[i].k = k].v ELSE Undefined
Put(o, k, x) ==
    IF Has(o, k) THEN Obj([i \in 1..Len(o.v) |-> IF o.v[i].k = k THEN Entry(k, x) ELSE o.v[i]])
    ELSE Obj(Append(o.v, Entry(k, x)))
Omit(o, k) == Obj(SelectSeq(o.v, LAMBDA e : e.k # k))

\* _.compact(array) on values: the elements that are not falsy
Truthy(x) == ~(x.t = "undefined" \/ (x.t = "number" /\ x.n = Absent))
CompactValues(a) == Arr(SelectSeq(a.v, Truthy))

\* _.merge(object, source) of lodash 3: a plain object or an array of the
\* source is merged, entry by entry, into the value the object has under
\* the same key when that is a plain object or an array too, and into a new
\* one otherwise; any other value but undefined replaces the object's
RECURSIVE Merge(_, _)
MergeValue(value, srcValue) ==
    CASE srcValue.t = "object" ->
             Merge(IF value.t = "object" THEN value ELSE Obj(<<>>), srcValue)
      [] srcValue.t = "array" ->
             Merge(IF value.t = "array" THEN value ELSE Arr(<<>>), srcValue)
      [] srcValue.t = "undefined" -> value
      [] OTHER -> srcValue

RECURSIVE MergeEntries(_, _)
MergeEntries(object, entries) ==
    IF entries = <<>> THEN object
    ELSE LET e == Head(entries)
         IN  MergeEntries(IF e.v.t = "undefined" THEN object
                          ELSE Put(object, e.k, MergeValue(Get(object, e.k), e.v)),
                          Tail(entries))

Merge(object, source) ==
    IF source.t = "array"
    THEN LET n == IF Len(object.v) > Len(source.v) THEN Len(object.v) ELSE Len(source.v)
         IN  Arr([i \in 1..n |->
                    IF i > Len(source.v) THEN object.v[i]
                    ELSE MergeValue(IF i <= Len(object.v) THEN object.v[i] ELSE Undefined,
                                    source.v[i])])
    ELSE MergeEntries(object, source.v)

\* Tenge.makeOID, as the transformers of _id and _ids name it: index.js
\* sets makeOID on Tenge.prototype and never on Tenge itself
TengeMakeOIDDefined == FALSE
\* makeOID(id): OID(id)
makeOID(id) == Oid(id.n)

\* _.map(array, Tenge.makeOID): an undefined iteratee is the identity
Map(a, defined) ==
    IF defined THEN Arr([i \in 1..Len(a.v) |-> makeOID(a.v[i])]) ELSE a

\* calling a value that is not a function
NotAFunction == "TypeError: Tenge.makeOID is not a function"

\* this._queryTransformers: the four transformers
Registered4 == {"id", "ids", "_id", "_ids"}
\* what the object literal inherits from Object.prototype: under
\* 'constructor', the function Object
Inherited == {"constructor"}

\* self._queryTransformers[$$key] is truthy
Lookup(key) == key \in Registered4 \cup Inherited

\* transformer($$val, query, $$): the fragment, or the error thrown.
\* Object(val) is val itself for an object and, for a number, a wrapper
\* with no keys of its own.
Transformer(key, val) ==
    CASE key = "id" -> [err |-> NoErr, v |-> Obj(<<Entry("id", val)>>)]
      [] key = "ids" ->
             [err |-> NoErr, v |-> Obj(<<Entry("id", Obj(<<Entry("$in", CompactValues(val))>>))>>)]
      [] key = "_id" ->
             IF TengeMakeOIDDefined THEN [err |-> NoErr, v |-> Obj(<<Entry("_id", makeOID(val))>>)]
             ELSE [err |-> NotAFunction, v |-> Undefined]
      [] key = "_ids" ->
             [err |-> NoErr,
              v |-> Obj(<<Entry("_id",
                        Obj(<<Entry("$in", CompactValues(Map(val, TengeMakeOIDDefined)))>>))>>)]
      [] key = "constructor" ->
             [err |-> NoErr, v |-> IF val.t = "object" THEN val ELSE Obj(<<>>)]

NoTransformer(key) == "No query transformer registered for \"$$." \o key \o "\""

\* _.omit(query, '$$') copies the query one level deep: an object or an
\* array under a key of the copy is the caller's own
SharedKeys(own) ==
    {own.v[i].k : i \in {j \in 1..Len(own.v) : own.v[j].v.t \in {"object", "array"}}}

\* _.merge(query, fragment), with the caller's query in view: st.params is
\* the caller's query as it is by now, st.shared the keys under which the
\* accumulated query still holds the caller's own object.  Where the
\* fragment has a plain object (an array) under a key and the query too,
\* _.merge merges into the one the query has; any other value of the
\* fragment is assigned to the key.
MergeInto(st, fragment) ==
    LET inPlace(k) == /\ k \in st.shared /\ Has(fragment, k)
                      /\ Get(fragment, k).t \in {"object", "array"}
                      /\ Get(st.query, k).t = Get(fragment, k).t
        assigned(k) == Has(fragment, k) /\ Get(fragment, k).t # "undefined" /\ ~inPlace(k)
        merged == Merge(st.query, fragment)
    IN  [st EXCEPT !.query = merged,
                   !.params = Obj([i \in 1..Len(@.v) |->
                                     IF inPlace(@.v[i].k) THEN Entry(@.v[i].k, Get(merged, @.v[i].k))
                                     ELSE @.v[i]]),
                   !.shared = {k \in @ : ~assigned(k)}]

\* _.transform($$, ...): the keys of $$ in their order, each fragment
\* merged into the query; the first error thrown ends it
RECURSIVE Transform(_, _)
Transform(entries, st) ==
    IF entries = <<>> \/ st.err # NoErr THEN st
    ELSE LET e      == Head(entries)
             thrown == _assert(Lookup(e.k), NoTransformer(e.k))
             f      == Transformer(e.k, e.v)
         IN  IF thrown # NoErr THEN [st EXCEPT !.err = thrown, !.query = Undefined]
             ELSE IF f.err # NoErr THEN [st EXCEPT !.err = f.err, !.query = Undefined]
             ELSE Transform(Tail(entries), MergeInto(st, f.v))

\* what _makeQuery starts from: no error, the copy of the caller's query
\* without its marker, and the caller's query itself
Start(query, copy) ==
    [err |-> NoErr, query |-> copy, params |-> query,
     shared |-> IF query.t = "object" THEN SharedKeys(Omit(query, "$$")) ELSE {}]

\* a normaliser that leaves the marker in the query
_makeQueryKeepMarker(query) ==
    LET own    == IF query.t = "object" THEN query ELSE Obj(<<>>)
        marker == IF Has(own, "$$") THEN Get(own, "$$") ELSE Obj(<<>>)
    IN  Transform(marker.v, Start(query, own))

\* _makeQuery(params), params.query being the given value (undefined when
\* the caller passes none): the error thrown, or the query returned, and
\* params.query as the call leaves it
_makeQuery(query) ==
    LET own    == IF query.t = "object" THEN query ELSE Obj(<<>>)
        marker == IF Has(own, "$$") THEN Get(own, "$$") ELSE Obj(<<>>)
    IN  Transform(marker.v, Start(query, Omit(own, "$$")))

----------------------------------------------------------------------------
(* The connection *)

\* Tenge._db() as the module defines it, and the databases of the
\* connection strings the callers connect to
NotConnected == "not connected"
Uris == {"mydb", "unittests"}

\* the params of the handles: the collection of the tests' setup, and none
NoName == ""
Named == [collection |-> "unittests"]
ModelOpts == {Named, [collection |-> NoName]}

\* a _collection that does not insist on a collection name
_collectionAssertNothing(params) == NoErr

\* _collection, before its steps: the error it throws
_collectionAssert(params) ==
    _assert(params.collection # NoName, "No collection name provided")

\* a Tenge._db() that returns what it has, connected or not
Tenge_dbUnchecked(db) == [err |-> NoErr, db |-> db]

\* Tenge._db(), and model._db(): the error thrown and the database returned
Tenge_db(db) ==
    IF db = NotConnected
    THEN [err |-> _assert(FALSE, "Not connected to database, use Tenge.connect())"),
          db |-> NotConnected]
    ELSE [err |-> NoErr, db |-> db]

----------------------------------------------------------------------------
(* The operation under observation *)

NoParams ==
    [query |-> [fld |-> "age", op |-> "eq", val |-> Absent], update |-> [fld |-> "hobby", val |-> Absent],
     fields |-> AllFields, sort |-> NoSort, skip |-> 0, limit |-> 0, upsert |-> FALSE]

\* kind, pc      which operation, and where it stands
\* params        its params, as normalised at the call
\* hooks         the handler list of a direct _runHooks call
\* ids           updateAll: the keys of the step-1 snapshot
\* hit           updateAll: the keys it re-fetches
\* err, docs     what the callback received: the error and the data (an
\*               updateOne's document is docs[1])
\* n             count, size: the number the callback received
\* raw           the query the caller passed, where the operation is called
\*               with one that may carry a marker
\* filter        _makeQuery called directly: the query it returned
\* runs, calls   the hook lists _runHooks was run on; the handlers invoked
\* doc, upserted updateOne: the document findAndModify returned (<<>> for
\*               null) and lastErrorObject.upserted
\* list          insert, remove: params.docs as the before-chain left it
\* snapshot      remove: the documents its find yielded
\* action        before, after: the action the handler is registered for
\* History, for the properties only:
\* given         insert: the documents handed in, doc first, then docs
\* fresh         insert, remove: the handle had no collection at the call
\* was           insert, remove: the collection at the call
\* store         the store calls the operation has issued, in their order
\* found         what find (same query and sort) yielded at the call
\* keys          how many primary keys the store had generated at the call
\* changed       keys of the documents this operation's store calls changed
\* writes        steps of other clients since the call
\* db            _db: the database returned
\* left          _makeQuery: the caller's query as the call has left it
\* thrown        the error was thrown to the caller of the operation; its
\*               callback has not been invoked
Idle ==
    [kind |-> "idle", pc |-> "idle", params |-> NoParams, hooks |-> <<>>,
     ids |-> <<>>, hit |-> <<>>, err |-> NoErr, docs |-> <<>>,
     runs |-> <<>>, calls |-> <<>>, doc |-> <<>>, upserted |-> Absent,
     list |-> <<>>, snapshot |-> <<>>, action |-> "",
     given |-> <<>>, fresh |-> FALSE, was |-> <<>>, store |-> <<>>,
     found |-> <<>>, keys |-> 0, changed |-> {}, writes |-> 0, n |-> 0,
     raw |-> Undefined, filter |-> Undefined, db |-> NotConnected,
     left |-> Undefined, thrown |-> FALSE]

InFlight == op.pc \in {"update", "fetch"}

\* the keys whose document differs between two states of the collection
ByKey(docs, k) == SelectSeq(docs, LAMBDA d : d._id = k)
Changed(old, new) ==
    {k \in Range(Pluck(old, "_id")) \cup Range(Pluck(new, "_id")) : ByKey(old, k) # ByKey(new, k)}

\* the params the callers of the model pass
Queries ==
    {[fld |-> "age", op |-> "lt", val |-> Adult],
     [fld |-> "age", op |-> "eq", val |-> Ancient]}
Sorts == {NoSort, [fld |-> "hobby", dir |-> 1], [fld |-> "hobby", dir |-> -1]}
SetChess == [fld |-> "hobby", val |-> Chess]

CallerParams(q, s, u) ==
    [query |-> q, update |-> SetChess, fields |-> AllFields, sort |-> s,
     skip |-> 0, limit |-> 0, upsert |-> u]

\* a cursor that is never told to skip
_findCursorNoSkip(params) ==
    [query |-> params.query, fields |-> params.fields, sort |-> params.sort,
     skip |-> 0, limit |-> params.limit]

\* _findCursor(params): the cursor find, findOne, count and size read
_findCursor(params) ==
    [query |-> params.query, fields |-> params.fields, sort |-> params.sort,
     skip |-> params.skip, limit |-> params.limit]

\* find(params): toArray() on that cursor
find(docs, params) == CursorToArray(docs, _findCursor(params))

----------------------------------------------------------------------------
(* The handle's collection *)

\* this._col before the first access, and the mongojs collection of
\* this._params.collection: db.collection(colname) makes a new collection
\* object at every call, ref tells them apart
NoCol == [name |-> "undefined", ref |-> 0]
Col(ref) == [name |-> "unittests", ref |-> ref]

\* _collection(cb), first step: the memoized collection is passed on, or
\* _initCollection is called, which issues an ensureIndex
InitsStarted(c) == IF c = NoCol THEN 1 ELSE 0

\* model._collection(cb), as the tests' setup calls it; without a
\* connection, the self._db() of _initCollection throws
Collection ==
    /\ op.pc = "idle"
    /\ inits + InitsStarted(_col) <= MaxInits
    /\ LET thrown == _collectionAssert(_params)
           db     == Tenge_db(_db)
       IN  /\ op' = IF thrown # NoErr
                    THEN [Idle EXCEPT !.kind = "_collection", !.pc = "done", !.err = thrown]
                    ELSE IF _col # NoCol
                    THEN [Idle EXCEPT !.kind = "_collection", !.pc = "done"]
                    ELSE IF db.err # NoErr
                    THEN [Idle EXCEPT !.kind = "_collection", !.pc = "done", !.fresh = TRUE,
                                      !.err = db.err]
                    ELSE [Idle EXCEPT !.kind = "_collection", !.pc = "init", !.fresh = TRUE,
                                      !.store = <<"ensureIndex">>]
           /\ inits' = IF thrown # NoErr \/ db.err # NoErr THEN inits
                       ELSE inits + InitsStarted(_col)
    /\ UNCHANGED <<col, oids, _hooks, _col, made, _db, _params, other>>

\* Tenge.connect(params): Tenge._db is replaced by a function that returns
\* the database of params.uri
Connect(uri) ==
    /\ _db' = uri
    /\ UNCHANGED <<col, oids, _hooks, op, _col, made, inits, _params, other>>

\* Tenge._db(), or model._db(), called by the caller
Db ==
    /\ op.pc = "idle"
    /\ LET r == Tenge_db(_db)
       IN  op' = [Idle EXCEPT !.kind = "_db", !.pc = "done", !.err = r.err, !.db = r.db]
    /\ UNCHANGED <<col, oids, _hooks, handle>>

\* new Tenge(params): the caller goes on with a handle of its own params
\* and hooks and no memoized collection; the constructor does not look at
\* Tenge._db
New(params) ==
    /\ op.pc = "idle"
    /\ inits = 0
    /\ _params' = params
    /\ _hooks' = NewHooks
    /\ _col' = NoCol
    /\ op' = [Idle EXCEPT !.kind = "new", !.pc = "done"]
    /\ UNCHANGED <<col, oids, made, inits, _db, other>>

\* model._collection(cb) called by another caller while this._col is not
\* set yet: it calls _initCollection as well
OtherCollection ==
    /\ _col = NoCol
    /\ _collectionAssert(_params) = NoErr
    /\ inits < MaxInits
    /\ inits' = inits + 1
    /\ UNCHANGED <<col, oids, _hooks, op, _col, made, _db, _params, other>>

\* the operation whose _collection has passed it the collection goes on:
\* insert to its store insert, remove to the read of its find, the find
\* operations to the read of their cursor, an updateAll that waits for two
\* collections to the second, and then to the read of its snapshot
Resume(o) ==
    CASE o.pc = "init2"    -> [o EXCEPT !.pc = "init"]
      [] o.kind = "insert" -> [o EXCEPT !.pc = "insert"]
      [] o.kind = "updateAll" -> [o EXCEPT !.pc = "snapshot"]
      [] o.kind = "remove" -> [o EXCEPT !.pc = "find"]
      [] o.kind \in {"find", "findOne", "count", "size"} -> [o EXCEPT !.pc = "cursor"]
      [] OTHER             -> [o EXCEPT !.pc = "done"]

\* the calls of _initCollection the operation under observation waits for
Pending(o) == CASE o.pc = "init2" -> 2 [] o.pc = "init" -> 1 [] OTHER -> 0

\* An ensureIndex has completed: _initCollection registers the default
\* hook and the second step of _collection memoizes the collection that
\* this call of _initCollection has looked up.  It is one the operation
\* under observation waits for (own), or one started by an operation that
\* has ended meanwhile or by another caller.
InitCollectionDone(own) ==
    /\ IF own THEN Pending(op) > 0 /\ inits > 0
       ELSE inits > Pending(op)
    /\ inits' = inits - 1
    /\ _hooks' = before(_hooks, "insert", DefaultHook).hooks
    /\ _col' = Col(_col.ref + 1)
    /\ op' = IF own THEN Resume(op) ELSE op
    /\ UNCHANGED <<col, oids, made, _db, _params, other>>

\* the error of a store that cannot create the index
IndexError == "ensureIndex failed"

\* An ensureIndex has failed: the steps of _initCollection and _collection
\* that follow it are skipped, so no hook is registered and nothing is
\* memoized, and the error goes to the callback of the operation that
\* waits for this collection (own), if it is one of its
InitCollectionFail(own) ==
    /\ IF own THEN Pending(op) > 0 /\ inits > 0
       ELSE inits > Pending(op)
    /\ inits' = inits - 1
    /\ op' = IF own THEN [op EXCEPT !.pc = "done", !.err = IndexError] ELSE op
    /\ UNCHANGED <<col, oids, _hooks, _col, made, _db, _params, other>>

----------------------------------------------------------------------------
(* updateAll *)

\* a multi-update that is always issued against the original filter
UpdateAllTargetFilter(ids, params) ==
    [query |-> params.query, upsert |-> ids = <<>> /\ params.upsert]

\* step 2: the multi-update's query and upsert option, from the snapshot
UpdateAllTarget(ids, params) ==
    IF ids = <<>> /\ params.upsert
    THEN [query |-> params.query, upsert |-> TRUE]
    ELSE [query |-> [fld |-> "_id", op |-> "in", val |-> Range(ids)], upsert |-> FALSE]

\* a step 3 that does not read the upsert report
UpdateAllKeysSnapshot(updatedIds, result) == updatedIds

\* step 3: the keys to fetch, from the snapshot or the upsert report
UpdateAllKeys(updatedIds, result) ==
    IF Len(updatedIds) > 0 THEN updatedIds ELSE Pluck(result.upserted, "_id")

\* a step 4 with the two hook lists exchanged
UpdateAllChainSwapped(updated) == IF updated > 0 THEN "upsert" ELSE "update"

\* step 4: the hook list for the fetched documents
UpdateAllChain(updated) == IF updated > 0 THEN "update" ELSE "upsert"

\* step 4 and the callback: nothing fetched gives [] and no chain; else the
\* chain's err and params.docs
UpdateAllFinish(o, docs, hooks) ==
    IF docs = <<>>
    THEN [o EXCEPT !.pc = "done", !.docs = <<>>]
    ELSE LET list == UpdateAllChain(Len(o.ids))
             h    == _runHooks(hooks.after[list], docs)
         IN  [o EXCEPT !.pc = "done", !.err = h.err,
                       !.docs = IF h.err = NoErr THEN h.docs ELSE <<>>,
                       !.runs = Append(@, list), !.calls = @ \o h.calls]

\* The call and step 1: the params get their defaults and the snapshot of
\* the matching keys is read.  (The read is issued by the call; a write of
\* another client that the store serves before it is a write before the
\* call.)
UpdateAllCall(q, s, u) ==
    /\ op.pc = "idle"
    /\ _col # NoCol
    /\ u => oids < MaxId      \* a key is left for the upsert
    /\ LET given        == CallerParams(q, s, u)
           params       == [given EXCEPT !.sort = IF s = NoSort THEN [fld |-> "_id", dir |-> 1] ELSE s]
           docsToUpdate == find(col, [params EXCEPT !.fields = KeyOnly])
       IN  op' = [Idle EXCEPT !.kind = "updateAll", !.pc = "update", !.params = params,
                              !.ids = Pluck(docsToUpdate, "_id"),
                              !.found = find(col, given), !.keys = oids,
                              !.store = <<"find">>]
    /\ UNCHANGED <<col, oids, _hooks, handle>>

\* updateAll on a handle whose collection is not memoized yet: step 1 calls
\* _collection and find, and each of them finds this._col unset and calls
\* _initCollection
UpdateAllFirst(q, s, u) ==
    /\ op.pc = "idle"
    /\ _col = NoCol
    /\ _collectionAssert(_params) = NoErr
    /\ inits + 2 <= MaxInits
    /\ u => oids < MaxId
    /\ LET given  == CallerParams(q, s, u)
           params == [given EXCEPT !.sort = IF s = NoSort THEN [fld |-> "_id", dir |-> 1] ELSE s]
       IN  op' = [Idle EXCEPT !.kind = "updateAll", !.pc = "init2", !.params = params,
                              !.fresh = TRUE, !.store = <<"ensureIndex", "ensureIndex">>]
    /\ inits' = inits + 2
    /\ UNCHANGED <<col, oids, _hooks, _col, made, _db, _params, other>>

\* the read of step 1's find at the store, once both collections are there
UpdateAllSnapshot ==
    /\ op.pc = "snapshot"
    /\ LET docsToUpdate == find(col, [op.params EXCEPT !.fields = KeyOnly])
       IN  op' = [op EXCEPT !.pc = "update", !.ids = Pluck(docsToUpdate, "_id"),
                            !.found = find(col, op.params), !.keys = oids,
                            !.store = Append(@, "find")]
    /\ UNCHANGED <<col, oids, _hooks, handle>>

\* Step 2 at the store, and step 3 up to the fetch it issues
UpdateAllUpdate ==
    /\ op.pc = "update"
    /\ LET t      == UpdateAllTarget(op.ids, op.params)
           result == ColUpdate(col, oids + 1, t.query, op.params.update, t.upsert)
           ids    == UpdateAllKeys(op.ids, result)
           o      == [op EXCEPT !.hit = ids, !.changed = @ \cup Changed(col, result.col),
                                !.store = Append(@, "update")]
       IN  /\ col' = result.col
           /\ oids' = oids + Len(result.upserted)
           /\ op' = IF ids # <<>> THEN [o EXCEPT !.pc = "fetch"]
                    ELSE UpdateAllFinish(o, <<>>, _hooks)
    /\ UNCHANGED <<_hooks, handle>>

\* The fetch of step 3 at the store, step 4 and the callback
UpdateAllFetch ==
    /\ op.pc = "fetch"
    /\ LET docs == find(col, [op.params EXCEPT
                                !.query = [fld |-> "_id", op |-> "in", val |-> Range(op.hit)]])
       IN  op' = UpdateAllFinish([op EXCEPT !.store = Append(@, "find")], docs, _hooks)
    /\ UNCHANGED <<col, oids, _hooks, handle>>

----------------------------------------------------------------------------
(* updateOne *)

\* an updateOne that runs the after-update list on every document
UpdateOneChainUpdate(lastErrorObject) == "update"

\* the hook list for the document findAndModify returned
UpdateOneChain(lastErrorObject) ==
    IF lastErrorObject.upserted # Absent THEN "upsert" ELSE "update"

\* the step after findAndModify with the two messages of the assertion
\* exchanged
UpdateOneFinishExchanged(o, reply, hooks) ==
    IF reply.doc = <<>>
    THEN [o EXCEPT !.pc = "done", !.doc = reply.doc,
                   !.err = IF o.params.upsert THEN "Document does not exist" ELSE "Upsert failed"]
    ELSE LET list == UpdateOneChain(reply.lastErrorObject)
             h    == _runHooks(hooks.after[list], reply.doc)
         IN  [o EXCEPT !.pc = "done", !.err = h.err,
                       !.docs = IF h.err = NoErr THEN <<h.docs[1]>> ELSE <<>>,
                       !.doc = reply.doc,
                       !.upserted = reply.lastErrorObject.upserted,
                       !.runs = Append(@, list), !.calls = @ \o h.calls]

\* the step after findAndModify, and the callback: the assertion on the
\* document, then the chain on [doc]
UpdateOneFinish(o, reply, hooks) ==
    IF reply.doc = <<>>
    THEN [o EXCEPT !.pc = "done", !.doc = reply.doc,
                   !.err = IF o.params.upsert THEN "Upsert failed" ELSE "Document does not exist"]
    ELSE LET list == UpdateOneChain(reply.lastErrorObject)
             h    == _runHooks(hooks.after[list], reply.doc)
         IN  [o EXCEPT !.pc = "done", !.err = h.err,
                       !.docs = IF h.err = NoErr THEN <<h.docs[1]>> ELSE <<>>,
                       !.doc = reply.doc,
                       !.upserted = reply.lastErrorObject.upserted,
                       !.runs = Append(@, list), !.calls = @ \o h.calls]

\* an updateOne that does not hand params.upsert to findAndModify
UpdateOneStartNoUpsert(q, s, u) ==
    [Idle EXCEPT !.kind = "updateOne", !.params = CallerParams(q, s, FALSE),
                 !.found = find(col, CallerParams(q, s, u)), !.keys = oids]

\* an updateOne that does not hand params.sort to findAndModify
UpdateOneStartNoSort(q, s, u) ==
    [Idle EXCEPT !.kind = "updateOne", !.params = CallerParams(q, NoSort, u),
                 !.found = find(col, CallerParams(q, s, u)), !.keys = oids]

\* the call: params with the normalised query and new: true
UpdateOneStart(q, s, u) ==
    [Idle EXCEPT !.kind = "updateOne", !.params = CallerParams(q, s, u),
                 !.found = find(col, CallerParams(q, s, u)), !.keys = oids]

\* updateOne reads and writes the store in its one findAndModify, which
\* the store runs atomically
UpdateOne(q, s, u) ==
    /\ op.pc = "idle"
    /\ _col # NoCol
    /\ u => oids < MaxId      \* a key is left for the upsert
    /\ LET o     == UpdateOneStart(q, s, u)
           reply == ColFindAndModify(col, oids + 1, o.params)
       IN  /\ col' = reply.col
           /\ oids' = IF reply.lastErrorObject.upserted # Absent THEN oids + 1 ELSE oids
           /\ op' = UpdateOneFinish([o EXCEPT !.changed = Changed(col, reply.col),
                                               !.store = <<"findAndModify">>], reply, _hooks)
    /\ UNCHANGED <<_hooks, handle>>

\* A store that answers an upsert with no document and no error
UpdateOneNoDocument(q, s) ==
    /\ op.pc = "idle"
    /\ _col # NoCol
    /\ LET o     == UpdateOneStart(q, s, TRUE)
           reply == [col |-> col, doc |-> <<>>,
                     lastErrorObject |-> [updatedExisting |-> FALSE, upserted |-> Absent]]
       IN  op' = UpdateOneFinish([o EXCEPT !.store = <<"findAndModify">>], reply, _hooks)
    /\ UNCHANGED <<col, oids, _hooks, handle>>

----------------------------------------------------------------------------
(* _runHooks called directly, as the test of the mechanism does *)

Handlers ==
    {PushHandler("h1", 1, FALSE), PushHandler("h2", 2, FALSE),
     PushHandler("h3", 3, TRUE), PushHandler("h3", 3, FALSE), PushHandler("h4", 4, FALSE),
     PushHandler("h4", 4, TRUE)}

RECURSIVE Lists(_, _)
Lists(S, n) ==
    IF n = 0 THEN {<<>>}
    ELSE LET shorter == Lists(S, n - 1)
         IN  shorter \cup {Append(l, x) : l \in shorter, x \in S}

RunHooks(hooks) ==
    /\ op.pc = "idle"
    /\ LET h == _runHooks(hooks, <<>>)
       IN  op' = [Idle EXCEPT !.kind = "_runHooks", !.pc = "done", !.hooks = hooks,
                              !.err = h.err, !.docs = h.docs, !.calls = h.calls]
    /\ UNCHANGED <<col, oids, _hooks, handle>>

----------------------------------------------------------------------------
(* Registering hooks *)

\* the actions callers name, and the handlers they register
Actions == {"insert", "update", "upsert", "remove", "find"}
BeforeHandlers == {FailingHandler("b!"), SliceHandler("b1", 1)}
AfterHandlers == {FailingHandler("a!"), MarkHandler("a")}
HandlersOf(phase) == IF phase = "before" THEN BeforeHandlers ELSE AfterHandlers

\* how many handlers the caller has registered (the default hook is the
\* handle's own)
RECURSIVE Sum(_, _)
Sum(f, S) == IF S = {} THEN 0 ELSE LET x == CHOOSE y \in S : TRUE IN f[x] + Sum(f, S \ {x})
Registered(hooks) ==
    Sum([a \in DOMAIN hooks.before |->
            Len(SelectSeq(hooks.before[a], LAMBDA h : h # DefaultHook))], DOMAIN hooks.before)
    + Sum([a \in DOMAIN hooks.after |-> Len(hooks.after[a])], DOMAIN hooks.after)

\* model.before(action, handler) or model.after(action, handler), called
\* between two operations; a throw is what the caller gets
Register(phase, action, handler) ==
    /\ op.pc = "idle"
    /\ LET r == IF phase = "before" THEN before(_hooks, action, handler)
                ELSE after(_hooks, action, handler)
       IN  /\ r.err = NoErr => Registered(_hooks) < MaxRegistered
           /\ _hooks' = r.hooks
           /\ op' = [Idle EXCEPT !.kind = phase, !.pc = "done", !.action = action,
                                 !.hooks = <<handler>>, !.err = r.err]
    /\ UNCHANGED <<col, oids, handle>>

----------------------------------------------------------------------------
(* insert *)

\* the documents callers hand to insert: no _id, an id of their own or none
NewDoc(a, i) == [Doc(Absent, a, Absent) EXCEPT !.id = i]
NewDocs == {NewDoc(Teen, Absent), NewDoc(Teen, Fake)}

\* params of insert: doc is <<>> (undefined) or <<d>>; docs is <<>>
\* (undefined) or <<l>> for the array l
InsertParams ==
    {p \in [doc : {<<>>} \cup {<<d>> : d \in NewDocs},
            docs : {<<>>} \cup {<<l>> : l \in Lists(NewDocs, MaxBatch)}] :
        Len(p.doc) + (IF p.docs = <<>> THEN 0 ELSE Len(p.docs[1])) <= MaxBatch}

\* the params of the inserts that fill the collection, as the tests' setup
\* does with its fixtures
Fixtures ==
    {[doc |-> <<>>, docs |-> <<l>>] :
        l \in Lists({NewDoc(Teen, Absent), NewDoc(Adult, Absent)}, MaxBatch) \ {<<>>}}

\* [].concat(params.doc, params.docs): an array argument gives its
\* elements, any other argument, undefined too, is one element
Concat(doc, docs) ==
    << doc >> \o (IF docs = <<>> THEN << <<>> >> ELSE [i \in 1..Len(docs[1]) |-> <<docs[1][i]>>])

\* _.compact(array): the elements that are not falsy
Compact(array) ==
    LET kept == SelectSeq(array, LAMBDA e : e # <<>>)
    IN  [i \in 1..Len(kept) |-> kept[i][1]]

\* self._assert(docs, ...): docs is an array, and an array is truthy
InsertAssert(docs) ==
    _assert(Len(docs) >= 0, "no doc or docs specified for insert operation")

\* col.insert(docs): the driver gives every document a primary key, the
\* store inserts them in order and stops at the first that breaches the
\* unique index on id.  k keys have been generated so far.
RECURSIVE ColInsert(_, _, _)
ColInsert(docs, k, batch) ==
    IF batch = <<>> THEN [col |-> docs, docs |-> <<>>, err |-> NoErr]
    ELSE LET d == [Head(batch) EXCEPT !._id = k + 1]
         IN  IF d.id # Absent /\ \E e \in Range(docs) : e.id = d.id
             THEN [col |-> docs, docs |-> <<>>, err |-> "E11000 duplicate key error"]
             ELSE LET rest == ColInsert(Append(docs, d), k + 1, Tail(batch))
                  IN  [col |-> rest.col, docs |-> <<d>> \o rest.docs, err |-> rest.err]

\* an insert that goes on to the store whatever the before-chain reports
InsertBeforeAnyway(o, thrown, h) ==
    [o EXCEPT !.pc = IF o.fresh THEN "init" ELSE "insert",
              !.runs = <<"before-insert">>, !.calls = h.calls, !.list = h.docs]

\* the first step after its before-chain: an error goes to the callback,
\* else the second step waits for the collection
InsertBefore(o, thrown, h) ==
    IF thrown # NoErr THEN [o EXCEPT !.pc = "done", !.err = thrown]
    ELSE LET b == [o EXCEPT !.runs = <<"before-insert">>, !.calls = h.calls, !.list = h.docs]
         IN  IF h.err # NoErr THEN [b EXCEPT !.pc = "done", !.err = h.err]
             ELSE [b EXCEPT !.pc = IF o.fresh THEN "init" ELSE "insert"]

\* The call and the first step: _collection is called, the documents are
\* collected and the before-insert chain is run on the handlers registered
\* at this moment
InsertCall(p) ==
    /\ op.pc = "idle"
    /\ _collectionAssert(_params) = NoErr
    /\ inits + InitsStarted(_col) <= MaxInits
    /\ LET docs   == Compact(Concat(p.doc, p.docs))
           thrown == InsertAssert(docs)
           h      == _runHooks(_hooks.before.insert, docs)
           o      == [Idle EXCEPT !.kind = "insert", !.params = p, !.given = docs,
                                  !.fresh = (_col = NoCol), !.was = col, !.keys = oids,
                                  !.store = IF _col = NoCol THEN <<"ensureIndex">> ELSE <<>>]
       IN  /\ oids + Len(docs) <= MaxId      \* keys are left for the documents
           /\ made + Len(docs) <= MaxId
           /\ op' = InsertBefore(o, thrown, h)
           /\ made' = IF thrown = NoErr THEN h.made ELSE made
    /\ inits' = inits + InitsStarted(_col)
    /\ UNCHANGED <<col, oids, _hooks, _col, _db, _params, other>>

\* an insert that does not hand the error of its after-chain on
InsertFinishQuiet(o, r, hooks) ==
    IF r.err # NoErr THEN [o EXCEPT !.pc = "done", !.err = r.err]
    ELSE LET a == _runHooks(hooks.after.insert, r.docs)
         IN  [o EXCEPT !.pc = "done", !.docs = a.docs,
                       !.runs = Append(@, "insert"), !.calls = @ \o a.calls]

\* an insert that runs its after-chain whatever the store has answered
InsertFinishAnyway(o, r, hooks) ==
    LET a == _runHooks(hooks.after.insert, r.docs)
    IN  [o EXCEPT !.pc = "done", !.err = IF r.err # NoErr THEN r.err ELSE a.err,
                  !.docs = IF r.err = NoErr /\ a.err = NoErr THEN a.docs ELSE <<>>,
                  !.runs = Append(@, "insert"), !.calls = @ \o a.calls]

\* the third step and the callback: the after-insert chain on the
\* documents the store has answered with
InsertFinish(o, r, hooks) ==
    IF r.err # NoErr THEN [o EXCEPT !.pc = "done", !.err = r.err]
    ELSE LET a == _runHooks(hooks.after.insert, r.docs)
         IN  [o EXCEPT !.pc = "done", !.err = a.err,
                       !.docs = IF a.err = NoErr THEN a.docs ELSE <<>>,
                       !.runs = Append(@, "insert"), !.calls = @ \o a.calls]

\* the store's answer to an insert of no documents: an empty result, or
\* an error
EmptyInsert == {NoErr, "no documents to insert"}

\* The second step at the store, the third step and the callback
InsertStore(reply) ==
    /\ op.kind = "insert" /\ op.pc = "insert"
    /\ op.list # <<>> => reply = NoErr
    /\ LET r == IF op.list = <<>> THEN [col |-> col, docs |-> <<>>, err |-> reply]
                ELSE ColInsert(col, oids, op.list)
       IN  /\ col' = r.col
           /\ oids' = oids + Len(op.list)
           /\ op' = InsertFinish([op EXCEPT !.store = Append(@, "insert"),
                                            !.changed = Changed(col, r.col)], r, _hooks)
    /\ UNCHANGED <<_hooks, handle>>

----------------------------------------------------------------------------
(* remove *)

\* a remove that does not hand the limit on to find
RemoveParamsNoLimit(q, s, k, l) ==
    [NoParams EXCEPT !.query = q, !.sort = s, !.skip = k]

\* the params of remove: the caller's, with the normalised query
RemoveParams(q, s, k, l) ==
    [NoParams EXCEPT !.query = q, !.sort = s, !.skip = k, !.limit = l]

\* a store remove that removes nothing
ColRemoveNothing(docs, q) == docs

\* col.remove(query)
ColRemove(docs, q) == SelectSeq(docs, LAMBDA d : ~Matches(d, q))

\* the last step and the callback: the after-remove chain on the list
RemoveFinish(o, hooks) ==
    LET a == _runHooks(hooks.after.remove, o.list)
    IN  [o EXCEPT !.pc = "done", !.err = a.err,
                  !.docs = IF a.err = NoErr THEN a.docs ELSE <<>>,
                  !.runs = Append(@, "remove"), !.calls = @ \o a.calls]

\* a remove that runs its after-chain before it deletes
RemoveBeforeAfterFirst(o, h, hooks) ==
    LET b == [o EXCEPT !.runs = <<"before-remove">>, !.calls = h.calls, !.list = h.docs]
    IN  IF h.err # NoErr THEN [b EXCEPT !.pc = "done", !.err = h.err]
        ELSE IF h.docs = <<>> THEN RemoveFinish(b, hooks)
        ELSE [RemoveFinish(b, hooks) EXCEPT !.pc = "delete"]

\* a remove that deletes the documents of its snapshot
RemoveBeforeSnapshot(o, h, hooks) ==
    LET b == [o EXCEPT !.runs = <<"before-remove">>, !.calls = h.calls, !.list = o.snapshot]
    IN  IF h.err # NoErr THEN [b EXCEPT !.pc = "done", !.err = h.err]
        ELSE IF o.snapshot = <<>> THEN RemoveFinish(b, hooks)
        ELSE [b EXCEPT !.pc = "delete"]

\* the second step after its before-chain, and the third: an error goes to
\* the callback; a list with documents goes to the store's remove, an
\* empty one straight to the last step
RemoveBefore(o, h, hooks) ==
    LET b == [o EXCEPT !.runs = <<"before-remove">>, !.calls = h.calls, !.list = h.docs]
    IN  IF h.err # NoErr THEN [b EXCEPT !.pc = "done", !.err = h.err]
        ELSE IF h.docs = <<>> THEN RemoveFinish(b, hooks)
        ELSE [b EXCEPT !.pc = "delete"]

\* The call: the params get the normalised query and find is called, which
\* asks for the collection first
RemoveCall(q, s, k, l) ==
    /\ op.pc = "idle"
    /\ _collectionAssert(_params) = NoErr
    /\ inits + InitsStarted(_col) <= MaxInits
    /\ op' = [Idle EXCEPT !.kind = "remove", !.pc = IF _col = NoCol THEN "init" ELSE "find",
                          !.params = RemoveParams(q, s, k, l),
                          !.found = find(col, [NoParams EXCEPT !.query = q, !.sort = s,
                                                               !.skip = k, !.limit = l]),
                          !.fresh = (_col = NoCol), !.was = col, !.keys = oids,
                          !.store = IF _col = NoCol THEN <<"ensureIndex">> ELSE <<>>]
    /\ inits' = inits + InitsStarted(_col)
    /\ UNCHANGED <<col, oids, _hooks, _col, made, _db, _params, other>>

\* The read of find at the store, and the second step: the before-remove
\* chain on the documents found
RemoveFind ==
    /\ op.kind = "remove" /\ op.pc = "find"
    /\ LET docs == find(col, op.params)
           h    == _runHooks(_hooks.before.remove, docs)
       IN  op' = RemoveBefore([op EXCEPT !.snapshot = docs, !.store = Append(@, "find")], h, _hooks)
    /\ UNCHANGED <<col, oids, _hooks, handle>>

\* The remove at the store, the last step and the callback
RemoveDelete ==
    /\ op.kind = "remove" /\ op.pc = "delete"
    /\ LET ids  == Pluck(op.list, "_id")
           left == ColRemove(col, [fld |-> "_id", op |-> "in", val |-> Range(ids)])
       IN  /\ col' = left
           /\ op' = RemoveFinish([op EXCEPT !.store = Append(@, "remove"),
                                            !.changed = Changed(col, left)], _hooks)
    /\ UNCHANGED <<oids, _hooks, handle>>

----------------------------------------------------------------------------
(* A second remove, called while the first is in flight *)

\* The call, on a handle whose collection is there
OtherRemoveCall(q) ==
    /\ other.pc = "idle"
    /\ op.kind = "remove" /\ op.pc # "done"
    /\ _col # NoCol
    /\ other' = [Idle EXCEPT !.kind = "remove", !.pc = "find",
                             !.params = RemoveParams(q, NoSort, 0, 0),
                             !.found = find(col, RemoveParams(q, NoSort, 0, 0)),
                             !.was = col, !.keys = oids]
    /\ UNCHANGED <<col, oids, _hooks, op, _col, made, inits, _db, _params>>

\* its find at the store and its before-remove chain
OtherRemoveFind ==
    /\ other.pc = "find"
    /\ LET docs == find(col, other.params)
           h    == _runHooks(_hooks.before.remove, docs)
       IN  other' = RemoveBefore([other EXCEPT !.snapshot = docs, !.store = Append(@, "find")],
                                 h, _hooks)
    /\ UNCHANGED <<col, oids, _hooks, op, _col, made, inits, _db, _params>>

\* its remove at the store, its last step and its callback
OtherRemoveDelete ==
    /\ other.pc = "delete"
    /\ LET ids  == Pluck(other.list, "_id")
           left == ColRemove(col, [fld |-> "_id", op |-> "in", val |-> Range(ids)])
       IN  /\ col' = left
           /\ other' = RemoveFinish([other EXCEPT !.store = Append(@, "remove"),
                                                  !.changed = Changed(col, left)], _hooks)
    /\ UNCHANGED <<oids, _hooks, op, _col, made, inits, _db, _params>>

\* its caller has its result
OtherReturn ==
    /\ other.pc = "done"
    /\ other' = Idle
    /\ UNCHANGED <<col, oids, _hooks, op, _col, made, inits, _db, _params>>

----------------------------------------------------------------------------
(* A store that fails a call *)

\* the error of a store call that fails
StoreError == "store error"

\* the store call an operation has in flight at its pc
Stage(o) ==
    CASE o.pc = "insert"   -> "insert"
      [] o.pc = "find"     -> "find"
      [] o.pc = "delete"   -> "remove"
      [] o.pc = "snapshot" -> "find"
      [] o.pc = "update"   -> "update"
      [] o.pc = "fetch"    -> "find"
      [] OTHER             -> ""

\* a flow that goes on to its next step when a slot has got an error,
\* with the error kept for the callback
FailOn(o, call, err) == [o EXCEPT !.err = err, !.store = Append(@, call)]

\* a slot has got the error of a store call: the steps that follow are
\* skipped and the callback gets the error
Fail(o, call, err) == [o EXCEPT !.pc = "done", !.err = err, !.store = Append(@, call)]

\* The store call in flight of an insert, a remove or an updateAll fails
StoreFail ==
    /\ op.kind \in {"insert", "remove", "updateAll"}
    /\ Stage(op) # ""
    /\ op' = IF op.kind = "insert"
             THEN InsertFinish([op EXCEPT !.store = Append(@, "insert")],
                               [col |-> col, docs |-> <<>>, err |-> StoreError], _hooks)
             ELSE Fail(op, Stage(op), StoreError)
    /\ UNCHANGED <<col, oids, _hooks, handle>>

\* The findAndModify of an updateOne fails
UpdateOneFail(q, s, u) ==
    /\ op.pc = "idle"
    /\ _col # NoCol
    /\ op' = Fail(UpdateOneStart(q, s, u), "findAndModify", StoreError)
    /\ UNCHANGED <<col, oids, _hooks, handle>>

\* The read of updateAll's first step fails
UpdateAllFindFail(q, s, u) ==
    /\ op.pc = "idle"
    /\ _col # NoCol
    /\ op' = Fail([Idle EXCEPT !.kind = "updateAll", !.params = CallerParams(q, s, u),
                               !.found = find(col, CallerParams(q, s, u)), !.keys = oids],
                  "find", StoreError)
    /\ UNCHANGED <<col, oids, _hooks, handle>>

----------------------------------------------------------------------------
(* Other clients of the collection, and the caller *)

\* Other clients write while no result is being looked at, and at most
\* MaxWrites times while an updateAll is in flight.

\* an upsert of the updateAll in flight will need a key
Reserved == IF op.pc = "update" /\ op.params.upsert /\ op.ids = <<>> THEN 1 ELSE 0

Seen(o) == IF o.pc \in {"update", "fetch"} THEN [o EXCEPT !.writes = @ + 1] ELSE o

CanWrite == op.pc # "done" /\ (InFlight => op.writes < MaxWrites)

\* another client's insert has reached the store
WriterInsert(a, h) ==
    /\ CanWrite
    /\ oids + Reserved < MaxId
    /\ col' = Append(col, Doc(oids + 1, a, h))
    /\ oids' = oids + 1
    /\ op' = Seen(op)
    /\ UNCHANGED <<_hooks, handle>>

\* another client's remove has reached the store
WriterRemove(k) ==
    /\ CanWrite
    /\ \E i \in 1..Len(col) : col[i]._id = k
    /\ col' = SelectSeq(col, LAMBDA d : d._id # k)
    /\ op' = Seen(op)
    /\ UNCHANGED <<oids, _hooks, handle>>

\* model.after(action, handler) of the update tests: a handler that marks
\* the documents it is given
After(action) ==
    /\ op.pc # "done"
    /\ Len(_hooks.after[action]) < MaxHooks
    /\ _hooks' = after(_hooks, action, MarkHandler(action)).hooks
    /\ UNCHANGED <<col, oids, op, handle>>

\* the caller has its result
Return ==
    /\ op.pc = "done"
    /\ op' = Idle
    /\ UNCHANGED <<col, oids, _hooks, handle>>

----------------------------------------------------------------------------
(* find, findOne, count and size *)

\* cursor.next(): the first document the cursor yields, <<>> for null
CursorNext(docs, c) ==
    LET all == CursorToArray(docs, c) IN IF all = <<>> THEN <<>> ELSE <<all[1]>>

\* a count that applies skip and limit
CursorCountLimited(docs, c) == Len(CursorToArray(docs, c))

\* cursor.count(): the documents matching the query, whatever skip and
\* limit
CursorCount(docs, c) == Len(Filter(docs, c.query))

\* cursor.size(): the documents the cursor yields, skip and limit applied
CursorSize(docs, c) == Len(CursorToArray(docs, c))

\* The store's reading of a normalised query: {} or one condition
Cond(query) ==
    IF query.v = <<>> THEN [fld |-> "_id", op |-> "all", val |-> Absent]
    ELSE LET e == query.v[1]
         IN  CASE e.v.t = "number" -> [fld |-> e.k, op |-> "eq", val |-> e.v.n]
               [] e.v.t = "object" /\ e.v.v[1].k = "$lt" ->
                      [fld |-> e.k, op |-> "lt", val |-> e.v.v[1].v.n]
               [] e.v.t = "object" /\ e.v.v[1].k = "$in" ->
                      [fld |-> e.k, op |-> "in", val |-> {x.n : x \in Range(e.v.v[1].v.v)}]

FindKinds == {"find", "findOne", "count", "size"}

\* An operation that ends at its call with an error, thrown to the caller or
\* handed to the callback: nothing but the error comes of it
Raised(kind, query, err, thrown) ==
    /\ op.pc = "idle"
    /\ op' = [Idle EXCEPT !.kind = kind, !.pc = "done", !.raw = query, !.err = err,
                          !.was = col, !.keys = oids, !.thrown = thrown]
    /\ UNCHANGED <<col, oids, _hooks, handle>>

\* finds that let the exception of _makeQuery through to their caller
ThrownAlways(kind, query, err) == Raised(kind, query, err, TRUE)

\* An operation whose _makeQuery throws.  remove, updateOne and updateAll
\* call it before their flow starts, so the caller gets the exception; the
\* finds call it through _findCursor in the first step of their flow, which
\* hands the exception to the callback
Thrown(kind, query, err) == Raised(kind, query, err, kind \notin FindKinds)

\* model._makeQuery(params), as the tests call it
MakeQuery(query) ==
    /\ op.pc = "idle"
    /\ LET m == _makeQuery(query)
       IN  op' = [Idle EXCEPT !.kind = "_makeQuery", !.pc = "done", !.raw = query,
                              !.err = m.err, !.filter = m.query, !.left = m.params]
    /\ UNCHANGED <<col, oids, _hooks, handle>>

\* the params of the find operations: the caller's, with the normalised
\* query and every field
FindParams(q, s, k, l) ==
    [NoParams EXCEPT !.query = q, !.sort = s, !.skip = k, !.limit = l]

\* The first step of find, findOne, count and size: _findCursor, which
\* normalises the query and asks for the collection
FindCursorCall(kind, query, s, k, l) ==
    LET m == _makeQuery(query)
    IN  \/ m.err # NoErr /\ Thrown(kind, query, m.err)
        \/ /\ m.err = NoErr
           /\ op.pc = "idle"
           /\ _collectionAssert(_params) = NoErr
           /\ inits + InitsStarted(_col) <= MaxInits
           /\ op' = [Idle EXCEPT !.kind = kind, !.pc = IF _col = NoCol THEN "init" ELSE "cursor",
                                 !.raw = query, !.params = FindParams(Cond(m.query), s, k, l),
                                 !.fresh = (_col = NoCol), !.was = col, !.keys = oids,
                                 !.store = IF _col = NoCol THEN <<"ensureIndex">> ELSE <<>>]
           /\ inits' = inits + InitsStarted(_col)
           /\ UNCHANGED <<col, oids, _hooks, _col, made, _db, _params, other>>

\* model.find, model.findOne, model.count and model.size
Find(query, s, k, l) == FindCursorCall("find", query, s, k, l)
findOne(query, s, k, l) == FindCursorCall("findOne", query, s, k, l)
count(query, s, k, l) == FindCursorCall("count", query, s, k, l)
size(query, s, k, l) == FindCursorCall("size", query, s, k, l)

\* The second step: the cursor _findCursor has passed is read
CursorRead(kind, docs, n) ==
    /\ op.kind = kind /\ op.pc = "cursor"
    /\ op' = [op EXCEPT !.pc = "done", !.docs = docs, !.n = n,
                        !.store = Append(@, "find")]
    /\ UNCHANGED <<col, oids, _hooks, handle>>

\* cursor.toArray, cursor.next, cursor.count and cursor.size
FindToArray == CursorRead("find", CursorToArray(col, _findCursor(op.params)), 0)
FindOneNext == CursorRead("findOne", CursorNext(col, _findCursor(op.params)), 0)
CountCount == CursorRead("count", <<>>, CursorCount(col, _findCursor(op.params)))
SizeSize == CursorRead("size", <<>>, CursorSize(col, _findCursor(op.params)))

\* remove, updateOne and updateAll, called with a query that may carry a
\* marker: _makeQuery is their first statement
remove(query, s, k, l) ==
    LET m == _makeQuery(query)
    IN  \/ m.err # NoErr /\ Thrown("remove", query, m.err)
        \/ m.err = NoErr /\ RemoveCall(Cond(m.query), s, k, l)

updateOne(query, s, u) ==
    LET m == _makeQuery(query)
    IN  \/ m.err # NoErr /\ Thrown("updateOne", query, m.err)
        \/ m.err = NoErr /\ UpdateOne(Cond(m.query), s, u)

updateAll(query, s, u) ==
    LET m == _makeQuery(query)
    IN  \/ m.err # NoErr /\ Thrown("updateAll", query, m.err)
        \/ m.err = NoErr /\ UpdateAllCall(Cond(m.query), s, u)

\* An operation called on a handle without a collection name: insert, the
\* finds, remove, updateOne and updateAll all reach _collection before they
\* issue a store call or run a hook, after the _makeQuery of those that
\* take a query, and _collection throws
OpKinds == {"insert", "find", "findOne", "count", "size", "remove", "updateOne", "updateAll"}
NoCollection(kind, query) ==
    /\ _collectionAssert(_params) # NoErr
    /\ LET m == IF kind = "insert" THEN [err |-> NoErr, query |-> Undefined]
                ELSE _makeQuery(query)
       IN  IF m.err # NoErr THEN Thrown(kind, query, m.err)
           ELSE Raised(kind, query, _collectionAssert(_params), FALSE)

----------------------------------------------------------------------------
(* Specifications *)

\* A handle just constructed, on an empty collection, after the setup has
\* connected
Init ==
    /\ col = <<>>
    /\ oids = 0
    /\ _hooks = NewHooks
    /\ op = Idle
    /\ _col = NoCol
    /\ made = 0
    /\ inits = 0
    /\ _db = "unittests"
    /\ _params = Named
    /\ other = Idle

Writers ==
    \/ \E a \in {Teen, Adult}, h \in {Absent, Chess} : WriterInsert(a, h)
    \/ \E k \in 1..MaxId : WriterRemove(k)

Next ==
    \/ Collection
    \/ InitCollectionDone(TRUE)
    \/ \E q \in Queries, s \in Sorts, u \in BOOLEAN : UpdateAllCall(q, s, u)
    \/ UpdateAllUpdate
    \/ UpdateAllFetch
    \/ \E q \in Queries, s \in Sorts, u \in BOOLEAN : UpdateOne(q, s, u)
    \/ \E action \in {"update", "upsert"} : After(action)
    \/ Writers
    \/ Return

Spec == Init /\ [][Next]_vars

\* the same, with a store that may answer an upsert with no document
NextFault == Next \/ \E q \in Queries, s \in Sorts : UpdateOneNoDocument(q, s)

SpecFault == Init /\ [][NextFault]_vars

\* the hook mechanism alone
NextHooks ==
    \/ \E hooks \in Lists(Handlers, MaxChain) : RunHooks(hooks)
    \/ Return

SpecHooks == Init /\ [][NextHooks]_vars

\* hooks being registered, on a handle that is not used otherwise
NextRegister ==
    \/ \E phase \in {"before", "after"}, action \in Actions :
          \E handler \in HandlersOf(phase) : Register(phase, action, handler)
    \/ Return

SpecRegister == Init /\ [][NextRegister]_vars

\* the handle's collection being accessed, on its own or by an operation
Access ==
    \/ Collection
    \/ \E own \in BOOLEAN : InitCollectionDone(own)

\* one caller that inserts, with hooks on insert, on a handle in any state
NextInsert ==
    \/ \E phase \in {"before", "after"} :
          \E handler \in HandlersOf(phase) : Register(phase, "insert", handler)
    \/ Access
    \/ \E p \in InsertParams : InsertCall(p)
    \/ \E reply \in EmptyInsert : InsertStore(reply)
    \/ Return

SpecInsert == Init /\ [][NextInsert]_vars

\* one caller that fills the collection and removes, with hooks on remove
RemoveSorts == {NoSort, [fld |-> "age", dir |-> -1]}

NextRemove ==
    \/ \E phase \in {"before", "after"} :
          \E handler \in HandlersOf(phase) : Register(phase, "remove", handler)
    \/ Access
    \/ \E p \in Fixtures : InsertCall(p)
    \/ InsertStore(NoErr)
    \/ \E q \in Queries, s \in RemoveSorts, k \in 0..1, l \in 0..1 : RemoveCall(q, s, k, l)
    \/ RemoveFind
    \/ RemoveDelete
    \/ Return

SpecRemove == Init /\ [][NextRemove]_vars

\* one caller with hooks on any action: insert, remove and the updates
NextCrud ==
    \/ \E phase \in {"before", "after"}, action \in Actions :
          \E handler \in HandlersOf(phase) : Register(phase, action, handler)
    \/ Access
    \/ \E p \in Fixtures : InsertCall(p)
    \/ InsertStore(NoErr)
    \/ \E q \in Queries : RemoveCall(q, NoSort, 0, 0)
    \/ RemoveFind
    \/ RemoveDelete
    \/ \E q \in Queries, u \in BOOLEAN : UpdateOne(q, NoSort, u)
    \/ \E q \in Queries, u \in BOOLEAN : UpdateAllCall(q, NoSort, u)
    \/ UpdateAllUpdate
    \/ UpdateAllFetch
    \/ Return

SpecCrud == Init /\ [][NextCrud]_vars

\* callers that access the collection of a handle for the first time, on
\* its own, with an insert or with an updateAll, one of them at a time or
\* several before the first ensureIndex has completed
NextInit ==
    \/ Collection
    \/ OtherCollection
    \/ \E own \in BOOLEAN : InitCollectionDone(own)
    \/ \E p \in Fixtures : InsertCall(p)
    \/ InsertStore(NoErr)
    \/ \E q \in Queries, u \in BOOLEAN : UpdateAllFirst(q, NoSort, u)
    \/ UpdateAllSnapshot
    \/ \E q \in Queries, u \in BOOLEAN : UpdateAllCall(q, NoSort, u)
    \/ UpdateAllUpdate
    \/ UpdateAllFetch
    \/ Return

SpecInit == Init /\ [][NextInit]_vars

\* the module as it is loaded: nothing has connected yet
InitLoaded ==
    /\ col = <<>>
    /\ oids = 0
    /\ _hooks = NewHooks
    /\ op = Idle
    /\ _col = NoCol
    /\ made = 0
    /\ inits = 0
    /\ _db = NotConnected
    /\ _params = Named
    /\ other = Idle

\* callers that connect, ask for the database, construct handles, register
\* hooks on them and access their collection, in any order
NextConnect ==
    \/ \E uri \in Uris : Connect(uri)
    \/ Db
    \/ \E params \in ModelOpts : New(params)
    \/ \E handler \in BeforeHandlers : Register("before", "insert", handler)
    \/ Collection
    \/ InitCollectionDone(TRUE)
    \/ Return

SpecConnect == InitLoaded /\ [][NextConnect]_vars

\* one caller that fills the collection and reads it
FindQueries ==
    {Obj(<<Entry("age", Obj(<<Entry("$lt", Num(Adult))>>))>>),
     Obj(<<Entry("age", Num(Ancient))>>),
     Obj(<<Entry("age", Obj(<<Entry("$lt", Num(Ancient))>>))>>),
     Obj(<<Entry("$$", Obj(<<Entry("blupp", Num(Adult))>>))>>)}
FindSorts == {NoSort, [fld |-> "age", dir |-> 1], [fld |-> "_id", dir |-> -1]}
Skips == 0..(MaxId - 1)
Limits == 0..(MaxId - 1)

NextFind ==
    \/ Collection
    \/ InitCollectionDone(TRUE)
    \/ \E p \in Fixtures : InsertCall(p)
    \/ InsertStore(NoErr)
    \/ \E q \in FindQueries, s \in FindSorts, k \in Skips, l \in Limits : Find(q, s, k, l)
    \/ \E q \in FindQueries, s \in FindSorts, k \in Skips, l \in Limits : findOne(q, s, k, l)
    \/ \E q \in FindQueries, s \in FindSorts, k \in Skips, l \in Limits : count(q, s, k, l)
    \/ \E q \in FindQueries, s \in FindSorts, k \in Skips, l \in Limits : size(q, s, k, l)
    \/ FindToArray
    \/ FindOneNext
    \/ CountCount
    \/ SizeSize
    \/ Return

SpecFind == Init /\ [][NextFind]_vars

\* the queries handed to _makeQuery: fields of their own, and a marker
Owns ==
    {<<>>,
     <<Entry("age", Num(Teen))>>,
     <<Entry("id", Num(Fake))>>,
     <<Entry("id", Obj(<<Entry("$ne", Num(Fake))>>))>>,
     <<Entry("id", Obj(<<Entry("$in", Arr(<<Num(1), Num(2), Num(3)>>))>>))>>}
MarkerEntries ==
    {Entry("id", Num(2)),
     Entry("ids", Arr(<<Num(2), Num(Absent), Num(3)>>)),
     Entry("_id", Num(2)),
     Entry("_ids", Arr(<<Num(2), Num(Absent), Num(3)>>)),
     Entry("blupp", Num(2)),
     Entry("constructor", Num(2)),
     Entry("constructor", Obj(<<Entry("age", Num(Adult))>>))}
Markers ==
    {m \in Lists(MarkerEntries, MaxMarker) :
        \A i, j \in 1..Len(m) : i # j => m[i].k # m[j].k}
Marked(own, m) == Obj(own \o <<Entry("$$", Obj(m))>>)
MarkedQueries ==
    {Undefined} \cup {Obj(own) : own \in Owns}
                \cup {Marked(own, m) : own \in Owns, m \in Markers}

\* _makeQuery called directly, as its test does
NextQuery ==
    \/ \E query \in MarkedQueries : MakeQuery(query)
    \/ Return

SpecQuery == Init /\ [][NextQuery]_vars

\* the queries handed to the operations: those whose normalised query the
\* store model reads
OpQueries ==
    {Marked(<<>>, <<Entry("blupp", Num(2))>>),
     Marked(<<Entry("age", Num(Teen))>>, <<Entry("blupp", Num(2))>>),
     Marked(<<>>, <<Entry("id", Num(Fake)), Entry("blupp", Num(2))>>),
     Marked(<<>>, <<Entry("id", Num(Fake))>>),
     Marked(<<>>, <<Entry("ids", Arr(<<Num(Fake), Num(Absent)>>))>>),
     Marked(<<>>, <<Entry("_id", Num(1))>>),
     Marked(<<>>, <<Entry("_ids", Arr(<<Num(1), Num(Absent)>>))>>),
     Marked(<<>>, <<Entry("constructor", Num(2))>>),
     Obj(<<Entry("age", Num(Teen))>>)}
Seeds ==
    {[doc |-> <<d>>, docs |-> <<>>] : d \in {NewDoc(Teen, Absent), NewDoc(Teen, Fake)}}

\* one caller that fills the collection and calls the operations with
\* queries that carry a marker
NextMarked ==
    \/ Collection
    \/ InitCollectionDone(TRUE)
    \/ \E p \in Seeds : InsertCall(p)
    \/ InsertStore(NoErr)
    \/ \E query \in OpQueries : Find(query, NoSort, 0, 0)
    \/ \E query \in OpQueries : findOne(query, NoSort, 0, 0)
    \/ \E query \in OpQueries : count(query, NoSort, 0, 0)
    \/ \E query \in OpQueries : size(query, NoSort, 0, 0)
    \/ FindToArray
    \/ FindOneNext
    \/ CountCount
    \/ SizeSize
    \/ \E query \in OpQueries : remove(query, NoSort, 0, 0)
    \/ RemoveFind
    \/ RemoveDelete
    \/ \E query \in OpQueries : updateOne(query, NoSort, FALSE)
    \/ \E query \in OpQueries : updateAll(query, NoSort, FALSE)
    \/ UpdateAllUpdate
    \/ UpdateAllFetch
    \/ Return

SpecMarked == Init /\ [][NextMarked]_vars

\* callers that construct handles with and without a collection name and
\* call the operations on them
NoNameQueries ==
    {Undefined,
     Obj(<<Entry("age", Num(Teen))>>),
     Obj(<<Entry("$$", Obj(<<Entry("id", Num(Fake))>>))>>),
     Obj(<<Entry("$$", Obj(<<Entry("blupp", Num(Fake))>>))>>)}

NextNoName ==
    \/ \E params \in ModelOpts : New(params)
    \/ \E handler \in BeforeHandlers : Register("before", "insert", handler)
    \/ Collection
    \/ InitCollectionDone(TRUE)
    \/ \E p \in Seeds : InsertCall(p)
    \/ InsertStore(NoErr)
    \/ \E kind \in OpKinds, query \in NoNameQueries : NoCollection(kind, query)
    \/ Return

SpecNoName == Init /\ [][NextNoName]_vars

\* one caller that fills the collection and updates it, with and without
\* upsert, by queries that do and do not name an application identifier
UpsertQueries ==
    {Obj(<<Entry("age", Num(Teen))>>),
     Obj(<<Entry("age", Num(Ancient))>>),
     Obj(<<Entry("$$", Obj(<<Entry("id", Num(Fake))>>))>>),
     Obj(<<Entry("$$", Obj(<<Entry("blupp", Num(Fake))>>))>>)}

NextUpsert ==
    \/ \E action \in {"update", "upsert"} : Register("after", action, MarkHandler("a"))
    \/ Collection
    \/ InitCollectionDone(TRUE)
    \/ \E p \in Seeds : InsertCall(p)
    \/ InsertStore(NoErr)
    \/ \E query \in UpsertQueries, u \in BOOLEAN : updateOne(query, NoSort, u)
    \/ \E query \in UpsertQueries, u \in BOOLEAN : updateAll(query, NoSort, u)
    \/ UpdateAllUpdate
    \/ UpdateAllFetch
    \/ Return

SpecUpsert == Init /\ [][NextUpsert]_vars

\* callers of a handle whose store may fail to create the index
NextIndex ==
    \/ Collection
    \/ \E own \in BOOLEAN : InitCollectionDone(own)
    \/ \E own \in BOOLEAN : InitCollectionFail(own)
    \/ \E p \in Seeds : InsertCall(p)
    \/ InsertStore(NoErr)
    \/ \E q \in Queries : RemoveCall(q, NoSort, 0, 0)
    \/ RemoveFind
    \/ RemoveDelete
    \/ \E q \in Queries, u \in BOOLEAN : UpdateAllFirst(q, NoSort, u)
    \/ UpdateAllSnapshot
    \/ UpdateAllUpdate
    \/ UpdateAllFetch
    \/ Return

SpecIndex == Init /\ [][NextIndex]_vars

\* the writing operations on a store whose calls may fail
NextStore ==
    \/ Collection
    \/ InitCollectionDone(TRUE)
    \/ \E action \in {"insert", "update", "upsert", "remove"} : After(action)
    \/ \E p \in Seeds : InsertCall(p)
    \/ InsertStore(NoErr)
    \/ \E q \in Queries : RemoveCall(q, NoSort, 0, 0)
    \/ RemoveFind
    \/ RemoveDelete
    \/ \E q \in Queries, u \in BOOLEAN : UpdateOne(q, NoSort, u)
    \/ \E q \in Queries, u \in BOOLEAN : UpdateAllCall(q, NoSort, u)
    \/ UpdateAllUpdate
    \/ UpdateAllFetch
    \/ StoreFail
    \/ \E q \in Queries, u \in BOOLEAN : UpdateOneFail(q, NoSort, u)
    \/ \E q \in Queries, u \in BOOLEAN : UpdateAllFindFail(q, NoSort, u)
    \/ Return

SpecStore == Init /\ [][NextStore]_vars

\* two callers that remove from the same collection at the same time
NextRemoves ==
    \/ Collection
    \/ InitCollectionDone(TRUE)
    \/ After("remove")
    \/ \E p \in Fixtures : InsertCall(p)
    \/ InsertStore(NoErr)
    \/ \E q \in Queries : RemoveCall(q, NoSort, 0, 0)
    \/ RemoveFind
    \/ RemoveDelete
    \/ Return
    \/ \E q \in Queries : OtherRemoveCall(q)
    \/ OtherRemoveFind
    \/ OtherRemoveDelete
    \/ OtherReturn

SpecRemoves == Init /\ [][NextRemoves]_vars

\* one caller of every operation, on a store that answers every call, with
\* an error or without one
LiveQueries ==
    {Obj(<<Entry("age", Num(Teen))>>),
     Obj(<<Entry("$$", Obj(<<Entry("blupp", Num(Fake))>>))>>)}

\* the calls
Call ==
    \/ InsertCall([doc |-> <<NewDoc(Teen, Absent)>>, docs |-> <<>>])
    \/ \E query \in LiveQueries : Find(query, NoSort, 0, 0)
    \/ \E query \in LiveQueries : findOne(query, NoSort, 0, 0)
    \/ \E query \in LiveQueries : count(query, NoSort, 0, 0)
    \/ \E query \in LiveQueries : size(query, NoSort, 0, 0)
    \/ \E query \in LiveQueries : remove(query, NoSort, 0, 0)
    \/ \E query \in LiveQueries : updateOne(query, NoSort, FALSE)
    \/ \E query \in LiveQueries : updateAll(query, NoSort, FALSE)
    \/ \E q \in Queries : UpdateOneFail(q, NoSort, FALSE)
    \/ \E q \in Queries : UpdateAllFindFail(q, NoSort, FALSE)
    \/ Return

\* the answers of the store, each followed by the steps of the flow up to
\* its next store call or to the callback
Answer ==
    \/ InitCollectionDone(TRUE)
    \/ InitCollectionFail(TRUE)
    \/ InsertStore(NoErr)
    \/ FindToArray
    \/ FindOneNext
    \/ CountCount
    \/ SizeSize
    \/ RemoveFind
    \/ RemoveDelete
    \/ UpdateAllUpdate
    \/ UpdateAllFetch
    \/ StoreFail

NextLive == Call \/ Answer

\* every store call is answered
SpecLive == Init /\ [][NextLive]_vars /\ WF_vars(Answer)

----------------------------------------------------------------------------
(* Properties of updateAll *)

Done(kind) == op.kind = kind /\ op.pc = "done"

Keys(docs) == Pluck(docs, "_id")

\* a returned document without what the hooks added to it
Stored(d) == [d EXCEPT !.modifiedAfter = FALSE]

\* the documents the caller got are in the order of its sort
InSortOrder(docs, sort) ==
    \A i, j \in 1..Len(docs) : i < j => ~Precedes(docs[j], docs[i], sort)

\* updateAll has finished, no other client wrote meanwhile, and a find with
\* the caller's filter and sort matched several documents at the call
SeveralUpdated == Done("updateAll") /\ op.writes = 0 /\ Len(op.found) > 1

\* every returned document is the found one with the update applied; the
\* store holds just that for the found keys and changed no other document;
\* the after-update handlers, and no others, ran over all of them
SeveralEffect ==
    /\ op.err = NoErr
    /\ Len(op.docs) = Len(op.found)
    /\ \A d \in Range(op.docs) :
         /\ \E f \in Range(op.found) : f._id = d._id /\ Stored(d) = ApplySet(f, op.params.update)
         /\ ByKey(col, d._id) = <<Stored(d)>>
         /\ d.modifiedAfter <=> _hooks.after.update # <<>>
    /\ op.changed \subseteq Range(Keys(op.found))
    /\ op.runs = <<"update">>
    /\ op.calls = Names(_hooks.after.update)

\* C1 as stated: with no concurrent writers, updateAll on a filter matching
\* N > 1 documents returns N documents whose keys are, in the same order,
\* those of a find with the same filter and sort issued just before; each
\* carries the update; the store holds the update on those N and on no
\* other document; the after-update chain, not the after-upsert chain, runs
\* over all N.
C1_SameOrder ==
    SeveralUpdated => (Keys(op.docs) = Keys(op.found) /\ SeveralEffect)

\* C1, amended: the keys are the same set as those of the find before, in
\* the order of the caller's sort over the updated documents, which is the
\* order of that find when the update does not set the field sorted on; the
\* rest as stated.
C1_SameKeys ==
    SeveralUpdated =>
        /\ Range(Keys(op.docs)) = Range(Keys(op.found))
        /\ InSortOrder(op.docs, op.params.sort)
        /\ op.params.sort.fld # op.params.update.fld => Keys(op.docs) = Keys(op.found)
        /\ SeveralEffect

\* several documents updated under a sort on the updated field, with a
\* document the filter does not match in the collection
C1_Witness ==
    /\ SeveralUpdated
    /\ op.params.sort.fld = op.params.update.fld
    /\ \E d \in Range(op.found) : d.hobby # Chess
    /\ \E d \in Range(col) : d._id \notin Range(Keys(op.found))
    /\ op.calls # <<>> /\ _hooks.after.upsert # <<>>

\* C2: updateAll whose snapshot is empty, with upsert unset, completes
\* without an error, returns an empty sequence, invokes no after-update and
\* no after-upsert handler and changes no document of the store.
C2_NoMatchNoUpsert ==
    (Done("updateAll") /\ op.ids = <<>> /\ ~op.params.upsert) =>
        /\ op.err = NoErr
        /\ op.docs = <<>>
        /\ op.runs = <<>> /\ op.calls = <<>>
        /\ op.changed = {}

\* an updateAll that matched nothing, over a collection that holds a
\* document matching its filter, inserted after the snapshot
C2_Witness ==
    /\ Done("updateAll") /\ op.ids = <<>> /\ ~op.params.upsert
    /\ \E d \in Range(col) : Matches(d, op.params.query)
    /\ _hooks.after.update # <<>> /\ _hooks.after.upsert # <<>>

\* C3: updateAll on a filter matching no document, with upsert set (and no
\* other client writing meanwhile), creates exactly one new document,
\* returns exactly that document, fetched by the key of the store's upsert
\* report, and runs the after-upsert chain only.
C3_NoMatchUpsert ==
    (Done("updateAll") /\ op.found = <<>> /\ op.params.upsert /\ op.writes = 0) =>
        /\ op.err = NoErr
        /\ Len(op.docs) = 1
        /\ op.hit = Keys(op.docs)
        /\ op.changed = Range(op.hit)
        /\ op.docs[1]._id > op.keys
        /\ ByKey(col, op.docs[1]._id) = <<Stored(op.docs[1])>>
        /\ op.docs[1].modifiedAfter <=> _hooks.after.upsert # <<>>
        /\ op.runs = <<"upsert">>
        /\ op.calls = Names(_hooks.after.upsert)

\* an upsert through updateAll into a collection that holds documents
C3_Witness ==
    /\ Done("updateAll") /\ op.found = <<>> /\ op.params.upsert /\ op.writes = 0
    /\ Len(col) > 1
    /\ Len(op.docs) = 1
    /\ op.calls # <<>> /\ _hooks.after.update # <<>>

\* C4: when the snapshot of updateAll is not empty or upsert is not
\* requested, then whatever other clients write meanwhile, the operation
\* changes no document whose key is outside the snapshot, and every
\* document it returns has a key of the snapshot.
C4_WithinSnapshot ==
    (op.kind = "updateAll" /\ (op.ids # <<>> \/ ~op.params.upsert)) =>
        /\ op.changed \subseteq Range(op.ids)
        /\ Range(Keys(op.docs)) \subseteq Range(op.ids)

\* a matching document inserted after a snapshot that was not empty is in
\* the collection, without the update, when updateAll has finished
C4_Witness ==
    /\ Done("updateAll") /\ op.ids # <<>> /\ op.writes > 0
    /\ op.docs # <<>>
    /\ \E d \in Range(col) :
         /\ Matches(d, op.params.query)
         /\ d._id \notin Range(op.ids)
         /\ d.hobby # op.params.update.val

----------------------------------------------------------------------------
(* Properties of updateOne *)

\* C5: updateOne on a filter matching no document, with upsert unset,
\* fails with the not-found error, runs neither the after-update nor the
\* after-upsert chain and leaves the store unchanged.
C5_NotFound ==
    (Done("updateOne") /\ op.found = <<>> /\ ~op.params.upsert) =>
        /\ op.err = "Document does not exist"
        /\ op.docs = <<>>
        /\ op.runs = <<>> /\ op.calls = <<>>
        /\ op.changed = {}

\* a failed updateOne over a collection that holds documents
C5_Witness ==
    /\ Done("updateOne") /\ op.found = <<>> /\ ~op.params.upsert
    /\ col # <<>>
    /\ op.err # NoErr
    /\ _hooks.after.update # <<>> /\ _hooks.after.upsert # <<>>

\* C6: updateOne with upsert requested, when findAndModify reports no
\* document, fails with the upsert-failed error, which is not the not-found
\* error, and runs no after-hook chain.
C6_UpsertFailed ==
    (Done("updateOne") /\ op.params.upsert /\ op.doc = <<>>) =>
        /\ op.err = "Upsert failed"
        /\ op.err # "Document does not exist"
        /\ op.docs = <<>>
        /\ op.runs = <<>> /\ op.calls = <<>>

\* the store has answered an upsert with no document
C6_Witness ==
    /\ Done("updateOne") /\ op.params.upsert /\ op.doc = <<>> /\ op.err # NoErr
    /\ _hooks.after.update # <<>> /\ _hooks.after.upsert # <<>>

\* C7: a successful updateOne runs exactly one chain, once: the
\* after-upsert chain if lastErrorObject.upserted is set, and the
\* after-update chain if it is not.
C7_OneChain ==
    (Done("updateOne") /\ op.err = NoErr) =>
        /\ Len(op.runs) = 1
        /\ op.upserted # Absent =>
             (op.runs = <<"upsert">> /\ op.calls = Names(_hooks.after.upsert))
        /\ op.upserted = Absent =>
             (op.runs = <<"update">> /\ op.calls = Names(_hooks.after.update))

\* an updateOne that upserted has run the after-upsert handler
C7_Witness ==
    /\ Done("updateOne") /\ op.err = NoErr
    /\ op.upserted # Absent
    /\ op.calls = <<"upsert">>
    /\ _hooks.after.update # <<>>

\* C8: updateOne with upsert set on a filter matching no document returns
\* one new document that has every equality field of the filter, every
\* field the update sets and a primary key; the after-upsert chain has run
\* once and the after-update chain has not.
C8_Upserted ==
    (Done("updateOne") /\ op.found = <<>> /\ op.params.upsert) =>
        /\ op.err = NoErr
        /\ Len(op.docs) = 1
        /\ LET d == op.docs[1]
               q == op.params.query
           IN  /\ q.op = "eq" => d[q.fld] = q.val
               /\ d[op.params.update.fld] = op.params.update.val
               /\ d._id # Absent
               /\ d._id > op.keys
               /\ ByKey(col, d._id) = <<Stored(d)>>
               /\ op.changed = {d._id}
        /\ op.runs = <<"upsert">>
        /\ op.calls = Names(_hooks.after.upsert)

\* an upsert by an equality filter into a collection that holds documents
C8_Witness ==
    /\ Done("updateOne") /\ op.found = <<>> /\ op.params.upsert
    /\ op.params.query.op = "eq"
    /\ Len(col) > 1
    /\ Len(op.docs) = 1
    /\ op.calls # <<>> /\ _hooks.after.update # <<>>

\* C9: updateOne on a filter matching several documents changes only the
\* first match in the given sort order, to the document with the update
\* applied, and returns that document as the store holds it afterwards.
C9_FirstMatch ==
    (Done("updateOne") /\ Len(op.found) > 1) =>
        /\ op.err = NoErr
        /\ Len(op.docs) = 1
        /\ Stored(op.docs[1]) = ApplySet(op.found[1], op.params.update)
        /\ ByKey(col, op.found[1]._id) = <<Stored(op.docs[1])>>
        /\ op.changed \subseteq {op.found[1]._id}
        /\ \A i \in 2..Len(op.found) : ByKey(col, op.found[i]._id) = <<op.found[i]>>

\* the sort put a later document of the collection first, and that one was
\* changed
C9_Witness ==
    /\ Done("updateOne") /\ Len(op.found) > 1
    /\ op.found[1]._id > op.found[2]._id
    /\ op.changed = {op.found[1]._id}

----------------------------------------------------------------------------
(* Properties of the hook chain *)

FailingAt(hooks) == {i \in 1..Len(hooks) : hooks[i].fail}

\* the handlers up to and including the first that fails
Reached(hooks) ==
    IF FailingAt(hooks) = {} THEN Len(hooks)
    ELSE CHOOSE i \in FailingAt(hooks) : \A j \in FailingAt(hooks) : i <= j

\* C10: a chain invokes its handlers in registration order on one payload
\* and stops at the first that fails: the callback gets the payload as
\* changed by the handlers up to that one, no later handler is invoked, and
\* the error is that handler's.
C10_ChainOrder ==
    Done("_runHooks") =>
        LET n == Reached(op.hooks)
        IN  /\ op.calls = [i \in 1..n |-> op.hooks[i].name]
            /\ op.docs = [i \in 1..n |-> op.hooks[i].val]
            /\ op.err = IF FailingAt(op.hooks) = {} THEN NoErr ELSE op.hooks[n].name

\* the chain of the test: h1, h2, h3 (fails), h4
C10_Witness ==
    /\ Done("_runHooks")
    /\ op.hooks = <<PushHandler("h1", 1, FALSE), PushHandler("h2", 2, FALSE),
                    PushHandler("h3", 3, TRUE), PushHandler("h4", 4, FALSE)>>
    /\ op.docs = <<1, 2, 3>>
    /\ op.err = "h3"

----------------------------------------------------------------------------
(* Properties of the registration of hooks *)

\* the actions each phase is to accept
Accepted ==
    [before |-> {"insert", "remove"}, after |-> {"insert", "update", "upsert", "remove"}]

NotSupported(phase, action) ==
    "Tenge: " \o (IF phase = "before" THEN "Before" ELSE "After")
              \o "-hook for action not supported: " \o action

----------------------------------------------------------------------------
(* Properties of the hooks around insert, remove and the updates *)

\* the operation has invoked the handler of that name
Invoked(name) == \E i \in 1..Len(op.calls) : op.calls[i] = name

\* the names of the handlers of a list up to and including the first that
\* fails
UpToFailure(list) == SubSeq(Names(list), 1, Reached(list))

\* C12: when a before-insert or before-remove handler signals failure, the
\* operation ends there: the callback gets that handler's error, no insert
\* and no remove is issued to the store, no after-hook handler runs and the
\* collection is as it was at the call.
C12_BeforeAborts ==
    (op.pc = "done" /\ op.kind \in {"insert", "remove"} /\ Invoked("b!")) =>
        /\ op.err = "b!"
        /\ op.calls[Len(op.calls)] = "b!"
        /\ ~Invoked("a") /\ ~Invoked("a!")
        /\ op.runs = <<"before-" \o op.kind>>
        /\ Range(op.store) \subseteq {"ensureIndex", "find"}
        /\ col = op.was

\* a remove that had found documents was stopped by its before-handler,
\* with an after-remove handler registered
C12_Witness ==
    /\ Done("remove") /\ Invoked("b!")
    /\ op.snapshot # <<>>
    /\ _hooks.after.remove # <<>>

\* the after-list the operation has run
AfterList == _hooks.after[op.runs[Len(op.runs)]]

\* what the operation did to the store is in the collection
InEffect ==
    CASE op.kind = "insert" ->
           /\ Len(col) = Len(op.was) + Len(op.list)
           /\ \A i \in 1..Len(op.list) :
                ByKey(col, op.keys + i) = <<[op.list[i] EXCEPT !._id = op.keys + i]>>
      [] op.kind = "remove" ->
           /\ Len(col) = Len(op.was) - Len(op.list)
           /\ \A d \in Range(op.list) : ByKey(col, d._id) = <<>>
      [] op.kind = "updateOne" ->
           /\ op.doc # <<>>
           /\ ByKey(col, op.doc[1]._id) = op.doc
           /\ op.doc[1][op.params.update.fld] = op.params.update.val
      [] op.kind = "updateAll" ->
           /\ op.hit # <<>>
           /\ \A k \in Range(op.hit) :
                /\ Len(ByKey(col, k)) = 1
                /\ ByKey(col, k)[1][op.params.update.fld] = op.params.update.val

\* C13: when an after-hook handler of insert, update, upsert or remove
\* signals failure, what the operation did to the store stays in effect,
\* the handlers of the list behind that handler are not invoked, and the
\* callback gets the handler's error.
C13_AfterKeeps ==
    (op.pc = "done" /\ Invoked("a!")) =>
        /\ op.err = "a!"
        /\ LET reached == UpToFailure(AfterList)
               n       == Len(reached)
           IN  /\ Len(op.calls) >= n
               /\ SubSeq(op.calls, Len(op.calls) - n + 1, Len(op.calls)) = reached
               /\ reached[n] = "a!"
        /\ InEffect

\* the after-remove list failed at its first handler, with a second behind
\* it, after documents had been removed
C13_Witness ==
    /\ Done("remove") /\ Invoked("a!")
    /\ op.list # <<>>
    /\ Len(col) < Len(op.was)
    /\ _hooks.after.remove = <<FailingHandler("a!"), MarkHandler("a")>>

----------------------------------------------------------------------------
(* Properties of insert *)

\* how often the operation has invoked the handler of that name
Invocations(name) == Cardinality({i \in 1..Len(op.calls) : op.calls[i] = name})

\* C14, as stated: hooks run over N documents give each document a chain
\* run of its own, so that every handler is invoked once per document: an
\* insert of several documents that has succeeded has invoked each
\* after-insert handler as many times as it has inserted documents, for each
\* time the handler is listed.
C14_FanOut ==
    (Done("insert") /\ op.err = NoErr /\ Len(op.docs) > 1) =>
        \A h \in Range(_hooks.after.insert) :
            Invocations(h.name) =
                Len(op.docs) * Len(SelectSeq(_hooks.after.insert, LAMBDA g : g = h))

\* C15, as stated: an insert of a non-empty sequence that has succeeded, on
\* a handle in any state, returns documents that each carry an application
\* id and a primary key, the application ids pairwise distinct.
C15_Identifiers ==
    (Done("insert") /\ op.err = NoErr /\ op.given # <<>>) =>
        /\ \A i \in 1..Len(op.docs) :
               op.docs[i].id # Absent /\ op.docs[i]._id # Absent
        /\ \A i, j \in 1..Len(op.docs) :
               i # j => op.docs[i].id # op.docs[j].id

\* C16, as stated: an insert called with neither doc nor docs fails with the
\* validation error before any hook runs and before any store call is made,
\* and leaves the store unchanged.
C16_NothingToInsert ==
    (Done("insert") /\ op.params.doc = <<>> /\ op.params.docs = <<>>) =>
        /\ op.err = "Tenge: no doc or docs specified for insert operation"
        /\ op.runs = <<>> /\ op.calls = <<>>
        /\ op.store = <<>>
        /\ col = op.was

\* the documents an insert is called with: doc, followed by docs
Called(p) == p.doc \o (IF p.docs = <<>> THEN <<>> ELSE p.docs[1])

\* C17, as stated: an insert that has succeeded (no handler shortening the
\* list) has inserted doc followed by docs: it returns a sequence of that
\* length in that order, made of the caller's documents with nothing but
\* the two identifiers and the handlers' marks set on them, both
\* identifiers present, and the collection has grown by that length.
C17_InsertAll ==
    (Done("insert") /\ op.err = NoErr /\ ~Invoked("b1")) =>
        LET given == Called(op.params)
        IN  /\ Len(op.docs) = Len(given)
            /\ \A i \in 1..Len(op.docs) :
                   /\ op.docs[i] = [given[i] EXCEPT !._id = op.docs[i]._id,
                                                    !.id = op.docs[i].id,
                                                    !.modifiedAfter = op.docs[i].modifiedAfter]
                   /\ op.docs[i]._id # Absent /\ op.docs[i].id # Absent
                   /\ given[i].id # Absent => op.docs[i].id = given[i].id
            /\ Len(col) = Len(op.was) + Len(given)

\* the application ids that several documents of the list share
DupIds(list) ==
    {list[i].id : i \in {i \in 1..Len(list) :
        list[i].id # Absent /\ \E j \in 1..Len(list) : j # i /\ list[j].id = list[i].id}}

\* how many documents of the collection carry that application id
Count(docs, id) == Len(SelectSeq(docs, LAMBDA d : d.id = id))

\* C18: an insert whose batch, as it reaches the store, holds several
\* documents with one explicit id fails with the store's duplicate key
\* error, does not run its after-insert chain, and leaves exactly one
\* document with that id in the collection.
C18_DuplicateIds ==
    (Done("insert") /\ "insert" \in Range(op.store) /\ DupIds(op.list) # {}) =>
        /\ op.err = "E11000 duplicate key error"
        /\ op.docs = <<>>
        /\ op.runs = <<"before-insert">>
        /\ ~Invoked("a") /\ ~Invoked("a!")
        /\ \A id \in DupIds(op.list) : Count(col, id) = 1

C18_Witness ==
    /\ Done("insert") /\ DupIds(op.list) = {Fake}
    /\ "insert" \in Range(op.store)
    /\ _hooks.after.insert # <<>>
    /\ Count(op.was, Fake) = 0 /\ Count(col, Fake) = 1

----------------------------------------------------------------------------
(* Properties of remove *)

\* the documents of a list without those of the given primary keys
Without(docs, keys) == SelectSeq(docs, LAMBDA d : d._id \notin keys)

\* the snapshot of a remove as its before-remove handlers leave it
Left == _runHooks(_hooks.before.remove, op.snapshot).docs

\* C19: in a remove whose before-remove chain has succeeded, the list as
\* the handlers left it determines the deletion: the documents of its
\* primary keys are gone and every other document is still stored, those
\* of the snapshot that a handler dropped included; the after-remove chain
\* has run on that list, and a caller that gets no error gets that list.
C19_ListDetermines ==
    (Done("remove") /\ Len(op.runs) = 2) =>
        /\ col = Without(op.was, Range(Keys(Left)))
        /\ \A d \in Range(op.snapshot) :
               d._id \notin Range(Keys(Left)) => d \in Range(col)
        /\ ("remove" \in Range(op.store)) = (Left # <<>>)
        /\ op.runs = <<"before-remove", "remove">>
        /\ op.calls = UpToFailure(_hooks.before.remove) \o UpToFailure(_hooks.after.remove)
        /\ op.err = NoErr =>
               /\ Len(op.docs) = Len(Left)
               /\ \A i \in 1..Len(Left) : Stored(op.docs[i]) = Left[i]

C19_Witness ==
    /\ Done("remove") /\ op.err = NoErr
    /\ Invoked("b1") /\ Invoked("a")
    /\ Len(op.snapshot) = 2 /\ Len(op.docs) = 1
    /\ op.snapshot[2] \in Range(col) /\ op.snapshot[1] \notin Range(col)

\* C20: a remove on a handle without remove hooks, nobody else writing,
\* deletes the documents a find with the same query, sort, skip and limit
\* returns at the call, and returns them: they match the query, a limit k
\* lets it delete k documents at most, and without skip and limit no
\* matching document is left; when nothing is found the result is empty, no
\* remove is issued to the store and the collection stays as it was.
C20_RemoveFound ==
    (Done("remove") /\ _hooks.before.remove = <<>> /\ _hooks.after.remove = <<>>) =>
        /\ op.err = NoErr
        /\ op.docs = op.found
        /\ col = Without(op.was, Range(Keys(op.found)))
        /\ \A d \in Range(op.docs) : d \in Range(op.was) /\ Matches(d, op.params.query)
        /\ op.params.limit > 0 =>
               /\ Len(op.docs) <= op.params.limit
               /\ Len(col) >= Len(op.was) - op.params.limit
        /\ (op.params.limit = 0 /\ op.params.skip = 0) =>
               \A d \in Range(col) : ~Matches(d, op.params.query)
        /\ op.found = <<>> =>
               /\ op.docs = <<>>
               /\ "remove" \notin Range(op.store)
               /\ col = op.was

C20_Witness ==
    /\ Done("remove") /\ _hooks.before.remove = <<>> /\ _hooks.after.remove = <<>>
    /\ op.params.limit = 1 /\ Len(op.docs) = 1
    /\ Len(col) = Len(op.was) - 1
    /\ \E d \in Range(col) : Matches(d, op.params.query)

----------------------------------------------------------------------------
(* Properties of find, findOne, count and size *)

Min(a, b) == IF a < b THEN a ELSE b
Max(a, b) == IF a > b THEN a ELSE b

\* how many documents of the collection at the call match the query
Matching == Cardinality({i \in 1..Len(op.was) : Matches(op.was[i], op.params.query)})

\* how many of them are left after the skip and within the limit, a limit
\* of 0 being none
Within(skip, limit) ==
    IF limit = 0 THEN Max(0, Matching - skip) ELSE Min(limit, Max(0, Matching - skip))

\* C21: count returns the number of documents that match the query,
\* whatever skip and limit are; size returns min(limit, max(0, count -
\* skip)), and max(0, count - skip) when the limit is falsy.
C21_Counts ==
    /\ Done("count") => op.n = Matching
    /\ Done("size") => op.n = Within(op.params.skip, op.params.limit)

C21_Witness ==
    /\ Done("count") /\ op.params.skip = 2 /\ op.params.limit = 1
    /\ Matching = 3 /\ op.n = 3

\* the matching documents of the collection at the call, fully sorted
Sorted ==
    LET hit == SelectSeq(op.was, LAMBDA d : Matches(d, op.params.query))
    IN  IF op.params.sort = NoSort THEN hit ELSE SortBy(hit, op.params.sort)

\* the elements of a sequence at the positions [s, s + k), from s on when
\* k is 0
Slice(seq, s, k) ==
    [i \in 1..(IF k = 0 THEN Max(0, Len(seq) - s) ELSE Min(k, Max(0, Len(seq) - s))) |-> seq[s + i]]

\* C22: find with sort, limit k and skip s returns the elements at the
\* positions [s, s + k) of the fully sorted matching documents, in sorted
\* order, every element from s on when the limit is falsy; findOne returns
\* the first element of that result (none when it is empty).
C22_Slice ==
    /\ Done("find") =>
           /\ op.docs = Slice(Sorted, op.params.skip, op.params.limit)
           /\ op.params.sort # NoSort => InSortOrder(op.docs, op.params.sort)
    /\ Done("findOne") =>
           LET all == Slice(Sorted, op.params.skip, op.params.limit)
           IN  op.docs = IF all = <<>> THEN <<>> ELSE <<all[1]>>

C22_Witness ==
    /\ Done("find") /\ op.params.sort = [fld |-> "age", dir |-> 1]
    /\ op.params.skip = 1 /\ op.params.limit = 1
    /\ Len(op.was) = 3 /\ Matching = 3
    /\ op.was[1].age = Adult /\ op.was[2].age = Adult /\ op.was[3].age = Teen
    /\ op.docs = <<op.was[1]>>

----------------------------------------------------------------------------
(* Properties of the query normaliser *)

\* the caller's query as an object, its own fields and its marker's entries
RawObject == IF op.raw.t = "object" THEN op.raw ELSE Obj(<<>>)
OwnFields == Omit(RawObject, "$$").v
MarkerOf == IF Has(RawObject, "$$") THEN Get(RawObject, "$$").v ELSE <<>>

\* the field of the query that the fragment of a marker entry defines
Targets(e) ==
    CASE e.k \in {"id", "ids"} -> {"id"}
      [] e.k \in {"_id", "_ids"} -> {"_id"}
      [] OTHER -> IF e.v.t = "object" THEN {e.v.v[i].k : i \in 1..Len(e.v.v)} ELSE {}

\* nothing but the i-th marker entry defines the field it targets
Alone(i) ==
    /\ \A f \in Range(OwnFields) : f.k \notin Targets(MarkerOf[i])
    /\ \A j \in 1..Len(MarkerOf) : j # i => Targets(MarkerOf[j]) \cap Targets(MarkerOf[i]) = {}

Unregistered == SelectSeq(MarkerOf, LAMBDA e : e.k \notin {"id", "ids", "_id", "_ids"})

\* C24, as stated: an operation (find, findOne, count, size, remove,
\* updateOne, updateAll, or _makeQuery itself) given a query whose marker
\* holds a key no transformer is registered for fails with the
\* configuration error that names the key, issues no store call and leaves
\* the collection as it was.  (Markers with the key _id, whose transformer
\* throws an error of its own, are left aside.)
C24_UnknownKey ==
    (op.pc = "done" /\ Unregistered # <<>> /\ \A e \in Range(MarkerOf) : e.k # "_id") =>
        /\ op.err = "Tenge: " \o NoTransformer(Unregistered[1].k)
        /\ op.store = <<>>
        /\ col = op.was

\* the fragment the transformers id and ids are documented to return
Fragment(e) ==
    IF e.k = "id" THEN e.v
    ELSE Obj(<<Entry("$in", Arr(SelectSeq(e.v.v, LAMBDA x : x.n # Absent)))>>)

\* C25, as stated: fragments are merged with last-write-wins: where the
\* marker's entries (id, ids) define the field id, the normalised query
\* holds exactly the value of the last entry's fragment, and nothing of the
\* value the caller's own field id or an earlier entry gave it.
C25_LastWriteWins ==
    (/\ Done("_makeQuery") /\ op.err = NoErr
     /\ MarkerOf # <<>>
     /\ \A e \in Range(MarkerOf) : e.k \in {"id", "ids"}) =>
        Get(op.filter, "id") = Fragment(MarkerOf[Len(MarkerOf)])

\* C26, as stated: a marker entry _id: v gives the field _id the value
\* OID(v), and _ids: vs gives it {$in: [OID(x) for the non-empty x of vs]}:
\* every element is converted to the store's native identifier.  (Stated
\* for markers of one entry, with no field _id in the caller's own query.)
C26_NativeIds ==
    (/\ Done("_makeQuery")
     /\ Len(MarkerOf) = 1 /\ MarkerOf[1].k \in {"_id", "_ids"}
     /\ ~Has(Obj(OwnFields), "_id")) =>
        /\ op.err = NoErr
        /\ MarkerOf[1].k = "_id" => Get(op.filter, "_id") = Oid(MarkerOf[1].v.n)
        /\ MarkerOf[1].k = "_ids" =>
               Get(op.filter, "_id") =
                   Obj(<<Entry("$in",
                         Arr([i \in 1..Len(SelectSeq(MarkerOf[1].v.v, LAMBDA x : x.n # Absent)) |->
                                Oid(SelectSeq(MarkerOf[1].v.v, LAMBDA x : x.n # Absent)[i].n)]))>>)

----------------------------------------------------------------------------
(* Properties of the handle's collection *)

\* the default handlers in the before-insert list
DefaultHandlers == SelectSeq(_hooks.before.insert, LAMBDA h : h = DefaultHook)

\* C27, as stated: whatever the callers do, several of them before the
\* first initialisation has completed or one updateAll as the first
\* operation, the initialisation completes at most once for the handle and
\* the before-insert list never holds more than one default handler.
C27_InitOnce ==
    /\ _col.ref <= 1
    /\ Len(DefaultHandlers) <= 1

\* C28, as stated: once an access to the handle's collection has completed,
\* the memoized reference stays the same, and an access that starts later
\* (model._collection(cb) by the caller) completes at once with it: no
\* collection is looked up, no ensureIndex is issued and no hook is
\* registered.
C28_Memoized ==
    [][_col # NoCol =>
          /\ _col' = _col
          /\ (op.pc = "idle" /\ op'.kind = "_collection") =>
                 /\ op'.pc = "done" /\ op'.store = <<>>
                 /\ inits' = inits /\ _hooks' = _hooks]_vars

----------------------------------------------------------------------------
(* Properties of the connection *)

NotConnectedError == "Tenge: Not connected to database, use Tenge.connect())"

\* C29: Tenge._db() called before any connect fails with the error 'Not
\* connected'; called after a connect it fails not and returns the database
\* connected last; and what is connected stays connected.
C29_StoreHandle ==
    [][/\ (op.pc = "idle" /\ op'.kind = "_db") =>
              IF _db = NotConnected
              THEN op'.pc = "done" /\ op'.err = NotConnectedError
              ELSE op'.pc = "done" /\ op'.err = NoErr /\ op'.db = _db /\ op'.db \in Uris
        /\ _db # NotConnected => _db' # NotConnected]_vars

C29_Witness == Done("_db") /\ op.err = NotConnectedError /\ _db = NotConnected

\* C30, as stated: new Tenge(params) before any connect ends with an error.
C30_ConstructUnconnected ==
    [][(op.pc = "idle" /\ op'.kind = "new" /\ _db = NotConnected) => op'.err # NoErr]_vars

----------------------------------------------------------------------------
(* Properties of a handle without a collection name *)

NoCollectionName == "Tenge: No collection name provided"

\* C31: an operation (insert, find, findOne, count, size, remove, updateOne,
\* updateAll, or _collection itself) on a handle constructed without a
\* collection name fails; it fails with the error 'No collection name'
\* unless its query has failed to normalise before; no store call is
\* issued, the collection is as it was, and the handle has no default hook,
\* no memoized collection and no ensureIndex in flight.
C31_NoCollectionName ==
    (/\ op.pc = "done" /\ op.kind \in OpKinds \cup {"_collection"}
     /\ _params.collection = NoName) =>
        /\ op.err # NoErr
        /\ (op.kind \in {"insert", "_collection"} \/ _makeQuery(op.raw).err = NoErr) =>
               op.err = NoCollectionName
        /\ op.store = <<>>
        /\ op.kind # "_collection" => col = op.was
        /\ DefaultHandlers = <<>> /\ _col = NoCol /\ inits = 0

C31_Witness ==
    /\ Done("updateAll") /\ _params.collection = NoName
    /\ op.err = NoCollectionName /\ col # <<>>

----------------------------------------------------------------------------
(* Properties of the update paths *)

\* the application identifier the query of the operation names, if any
SuppliedId ==
    IF op.params.query.fld = "id" /\ op.params.query.op = "eq" THEN op.params.query.val
    ELSE Absent

\* the documents the operation under observation has created
Created == SelectSeq(col, LAMBDA d : d._id > op.keys)

\* C32: the default handler is in no list but before-insert; an updateOne
\* or updateAll invokes it never and generates no application identifier;
\* a document that its upsert has created has the application identifier
\* that the query names, and none if it names none (the update of the
\* callers sets none).
C32_NoIdOnUpsert ==
    /\ \A action \in DOMAIN _hooks.after : DefaultHook \notin Range(_hooks.after[action])
    /\ DefaultHook \notin Range(_hooks.before.remove)
    /\ (op.kind \in {"updateOne", "updateAll"} /\ op.pc = "done" /\ op.raw = Undefined) =>
           /\ Invocations(DefaultHook.name) = 0
           /\ \A d \in Range(Created) : d.id = SuppliedId

C32_Witness ==
    /\ Done("updateAll") /\ op.err = NoErr
    /\ Len(Created) = 1 /\ Created[1].id = Absent
    /\ DefaultHandlers # <<>>

\* C33, as stated: _makeQuery does not modify its input: the caller's query,
\* with every object nested in it, is after the call what it was before,
\* also when a field of its own overlaps with the field a marker entry
\* defines.
C33_InputKept == Done("_makeQuery") => op.left = op.raw

----------------------------------------------------------------------------
(* Properties of the order of the stages *)

\* the store calls that write, and the chains
Mutations == {"insert", "remove", "findAndModify", "update"}
BeforeChains == {"before-insert", "before-remove"}
AfterChains == {"insert", "remove", "update", "upsert"}
Some(seq, S) == \E i \in 1..Len(seq) : seq[i] \in S

\* the store calls of an operation but for the ensureIndex of its handle
Calls(o) == SelectSeq(o.store, LAMBDA c : c # "ensureIndex")
IsPrefix(s, t) == Len(s) <= Len(t) /\ SubSeq(t, 1, Len(s)) = s

\* C34: in an insert, remove, updateOne or updateAll the stages come in
\* order.  The step in which the store's write appears among the store
\* calls starts, for insert and remove, from a state in which the
\* before-chain has run without an error, and for all four from one in
\* which no after-chain has run; the step in which the before-chain runs
\* ends with no write issued; an after-chain has run only where the write
\* is among the store calls (a remove that found nothing writes nothing);
\* and the store calls of updateAll are, in this order, the snapshot read,
\* the multi-update and the re-fetch, all three there when an after-chain
\* has run.
C34_Stages ==
    [][/\ (Some(op'.store, Mutations) /\ ~Some(op.store, Mutations)) =>
              /\ op'.kind \in {"insert", "remove"} =>
                     op.kind = op'.kind /\ Some(op.runs, BeforeChains) /\ op.err = NoErr
              /\ ~Some(op.runs, AfterChains)
       /\ (Some(op'.runs, BeforeChains) /\ ~Some(op.runs, BeforeChains)) =>
              ~Some(op'.store, Mutations)
       /\ (op'.kind \in {"insert", "remove", "updateOne", "updateAll"}
            /\ Some(op'.runs, AfterChains)) =>
              \/ Some(op'.store, Mutations)
              \/ op'.kind = "remove" /\ op'.list = <<>>
       /\ op'.kind = "updateAll" =>
              /\ IsPrefix(Calls(op'), <<"find", "update", "find">>)
              /\ Some(op'.runs, AfterChains) => Calls(op') = <<"find", "update", "find">>]_vars

C34_Witness ==
    /\ Done("remove") /\ op.err = NoErr
    /\ op.runs = <<"before-remove", "remove">> /\ Len(op.calls) > 1
    /\ Calls(op) = <<"find", "remove">>

----------------------------------------------------------------------------
(* Properties of a failing index creation *)

\* C35, as stated: the operation whose first access to the collection has
\* met a failing ensureIndex fails with that error and has issued no store
\* call but ensureIndex; the default hook is not registered and the handle
\* has no memoized collection, so that the next access initialises again.
C35_IndexFails ==
    (op.pc = "done" /\ op.fresh /\ op.err = IndexError) =>
        /\ Range(op.store) \subseteq {"ensureIndex"}
        /\ DefaultHandlers = <<>>
        /\ _col = NoCol

----------------------------------------------------------------------------
(* Properties of a failing store call *)

\* the store calls of each writing operation, in the order of its stages
StagesOf(kind) ==
    CASE kind = "insert"    -> <<"insert">>
      [] kind = "remove"    -> <<"find", "remove">>
      [] kind = "updateOne" -> <<"findAndModify">>
      [] kind = "updateAll" -> <<"find", "update", "find">>
      [] OTHER              -> <<>>

\* C36: when a store call of insert, remove, updateOne or updateAll has
\* failed, the callback has got the store's error as it is and no data, the
\* operation is over, the failed call is the last store call and has been
\* issued once, and no after-chain has run.
C36_StoreFails ==
    op.err = StoreError =>
        /\ op.kind \in {"insert", "remove", "updateOne", "updateAll"}
        /\ op.pc = "done"
        /\ op.docs = <<>>
        /\ Calls(op) # <<>> /\ IsPrefix(Calls(op), StagesOf(op.kind))
        /\ ~Some(op.runs, AfterChains)

\* an updateAll whose multi-update has failed after a snapshot with
\* documents, on a handle with an after-update handler
C36_Witness ==
    /\ op.kind = "updateAll" /\ op.err = StoreError
    /\ Calls(op) = <<"find", "update">>
    /\ op.ids # <<>>
    /\ _hooks.after.update # <<>>

----------------------------------------------------------------------------
(* Properties of the first insert *)

\* C37, as stated: whenever the before-insert chain of an insert has run, the
\* first insert on a fresh handle included, the handle's collection was
\* initialised by then and the default handler was one of the chain: a
\* chain that has run to its end has invoked it.
C37_DefaultInChain ==
    (op.kind = "insert" /\ Some(op.runs, {"before-insert"})) =>
        /\ ~op.fresh
        /\ op.err = NoErr => Invoked(DefaultHook.name)

----------------------------------------------------------------------------
(* Properties of updateAll among other clients *)

\* the documents an operation's store calls changed or created that the
\* collection still holds
Surviving(o) == {k \in o.changed : ByKey(col, k) # <<>>}

\* C38, as stated: whatever other clients write meanwhile, an updateAll
\* whose multi-update has changed or created a document that is still there
\* when it finishes returns a sequence that is not empty and has run the
\* after-update or the after-upsert chain.
C38_ChangesReported ==
    (Done("updateAll") /\ op.err = NoErr /\ Surviving(op) # {}) =>
        /\ op.docs # <<>>
        /\ Some(op.runs, {"update", "upsert"})

----------------------------------------------------------------------------
(* Properties of two removes at the same time *)

\* a remove whose callback has got its documents
Removed(o) == o.kind = "remove" /\ o.pc = "done" /\ o.err = NoErr

\* C39, as stated: of two removes in flight at the same time no document is
\* reported as removed by both, and the documents a remove reports are
\* those its own store remove has deleted.
C39_RemovedOnce ==
    /\ (Removed(op) /\ Removed(other)) =>
           Range(Keys(op.docs)) \cap Range(Keys(other.docs)) = {}
    /\ Removed(op) => Range(Keys(op.docs)) \subseteq op.changed
    /\ Removed(other) => Range(Keys(other.docs)) \subseteq other.changed

\* C39, amended: every document a remove reports as removed was in the
\* snapshot of its own find and is in the collection no more when the
\* remove has finished, whichever of the two removes has deleted it.
C39_RemovedGone ==
    \A o \in {op, other} :
        Removed(o) =>
            /\ Range(Keys(o.docs)) \subseteq Range(Keys(o.snapshot))
            /\ \A k \in Range(Keys(o.docs)) : ByKey(col, k) = <<>>

\* two removes have reported the same document, which the first of them
\* to reach the store has deleted
C39_Witness ==
    /\ Removed(op) /\ Removed(other)
    /\ Range(Keys(op.docs)) \cap Range(Keys(other.docs)) # {}
    /\ other.changed = {} /\ op.changed # {}
    /\ Some(op.runs, {"remove"}) /\ Some(other.runs, {"remove"})

----------------------------------------------------------------------------
(* Properties of the callback *)

\* one of the operations is in flight: called, and its callback not invoked
Awaited == op.kind \in OpKinds /\ op.pc # "done"

\* an operation has ended with an exception at its call, without a callback
Threw == op.kind \in OpKinds /\ op.pc = "done" /\ op.thrown

\* once the operation is over, nothing more comes of it but the caller's
\* going on: no second callback
Once == [][op.pc = "done" => op' \in {op, Idle}]_vars

\* C40, as stated: on a store that answers every call and with handlers
\* that call next once, every insert, find, findOne, count, size, remove,
\* updateOne and updateAll invokes its callback in the end, with an error
\* or a result, and once.
C40_CallbackOnce ==
    /\ [](~Threw)
    /\ Awaited ~> (op.pc = "done" /\ ~op.thrown)
    /\ Once

\* C40, amended: an operation that has been called and has not thrown at
\* its call invokes its callback in the end, and once; the ones that throw
\* are remove, updateOne and updateAll with a query on which _makeQuery
\* throws, and their callback is never invoked.
C40_CallbackOrThrow ==
    /\ [](Threw => /\ op.kind \in {"remove", "updateOne", "updateAll"}
                   /\ _makeQuery(op.raw).err # NoErr
                   /\ op.err = _makeQuery(op.raw).err)
    /\ [](op.kind \in {"remove", "updateOne", "updateAll"} /\ op.raw # Undefined
              => _makeQuery(op.raw).err = NoErr \/ Threw)
    /\ Awaited ~> (op.pc = "done" /\ ~op.thrown)
    /\ Once

\* an updateAll has got its documents through its callback, after the
\* store has answered the call of each of its stages
C40_Witness ==
    /\ Done("updateAll") /\ ~op.thrown /\ op.err = NoErr
    /\ op.docs # <<>>
    /\ Len(op.store) >= 3

====
